---- MODULE Spec2Model ----
(***************************************************************************)
(* A model of the league connect flows (LeagueConnect) and of the derived  *)
(* values of the player page (PlayerPage).                                 *)
(*                                                                         *)
(*   Spec        the two connect flows: the form state, the two async      *)
(*               submit handlers split at their awaits, the persisted      *)
(*               leagueData key and the redirect timers.                   *)
(*   PlayerSpec  the render of the player page over a stored player        *)
(*               record: timeline, metrics.                                *)
(***************************************************************************)
EXTENDS Integers, Sequences, FiniteSets, TLC

VARIABLES
    \* ---- LeagueConnect (React state, one variable per useState) ----
    mode, privateTab,
    publicLeagueName, publicLeagueId,
    privateLeagueName, privateLeagueId, swid, espnS2,
    publicStatus, publicMessage, privateStatus, privateMessage,
    \* the running invocation of each async handler (its closure and position)
    publicCall, privateCall,
    \* localStorage["leagueData"], pending setTimeout callbacks, last router.push
    leagueData, timers, route,
    \* history: number of connects submitted, and the latest-submitted success
    submitCount, lastGood,
    \* ---- PlayerPage ----
    player, view,
    \* ---- DashboardPage ----
    dashboard, board,
    \* ---- PlayerPage: the route's playerId and the state of the load effect
    playerPage,
    \* ---- LeagueConnect of components/league (the ESPN-fetch form) ----
    espnConnect,
    \* ---- a connect response and a stored player run through the pages ----
    pipeline

connectVars == <<mode, privateTab, publicLeagueName, publicLeagueId,
                 privateLeagueName, privateLeagueId, swid, espnS2,
                 publicStatus, publicMessage, privateStatus, privateMessage,
                 publicCall, privateCall, leagueData, timers, route,
                 submitCount, lastGood>>

playerVars == <<player, view>>

dashboardVars == <<dashboard, board>>

\* the state of the pages behind the connect form
restVars == <<playerPage, espnConnect, pipeline>>

pageVars == <<playerVars, dashboardVars, restVars>>

vars == <<connectVars, playerVars, dashboardVars, restVars>>

(***************************************************************************)
(* Bounds of the model.                                                    *)
(***************************************************************************)
\* connects submitted in one behaviour
MaxSubmits == 2

(***************************************************************************)
(* JavaScript values.  A value is a record tagged with its type; a string  *)
(* the code takes apart is a sequence of one-character strings, any other  *)
(* text is an opaque string.                                               *)
(***************************************************************************)
Undefined == [t |-> "undefined"]
Null == [t |-> "null"]
Str(s) == [t |-> "string", v |-> s]
Arr(a) == [t |-> "array", v |-> a]
Obj(o) == [t |-> "object", v |-> o]

\* obj.key: undefined when the object has no such key
Get(obj, k) == IF k \in DOMAIN obj THEN obj[k] ELSE Undefined

\* JSON.stringify of an object literal: a key whose value is undefined is
\* left out of the text.  The text is modelled by the object it parses to.
JSONStringify(obj) ==
    [t |-> "text",
     v |-> [k \in {x \in DOMAIN obj : obj[x] # Undefined} |-> obj[k]]]

Digits == {"0", "1", "2", "3", "4", "5", "6", "7", "8", "9"}

IsDigit(c) == c \in Digits

\* the typed value passed on as it is
SanitizeKeepsAll(value) == value

\* value.replace(/[^\d]/g, "")
sanitizeLeagueId(value) == SelectSeq(value, IsDigit)

RECURSIVE TrimStart(_)
TrimStart(s) ==
    IF s # <<>> /\ Head(s) = " " THEN TrimStart(Tail(s)) ELSE s

RECURSIVE TrimEnd(_)
TrimEnd(s) ==
    IF s # <<>> /\ s[Len(s)] = " " THEN TrimEnd(SubSeq(s, 1, Len(s) - 1)) ELSE s

\* String.prototype.trim
Trim(s) == TrimEnd(TrimStart(s))

MyLeague == <<"M", "y", " ", "L", "e", "a", "g", "u", "e">>

\* name || "My League"
NameOrDefault(name) == IF name # <<>> THEN name ELSE MyLeague

(***************************************************************************)
(* The parse-content service, as the handlers see it.                      *)
(***************************************************************************)
Unparsable == [t |-> "unparsable"]

RostersA == Obj([team \in {"Team A"} |-> Arr("players-A")])

BodyA ==
    Obj(("standings" :> Arr("standings-A")) @@ ("teams" :> Arr("teams-A"))
        @@ ("rosters" :> RostersA))
\* rosters missing
BodyNoRosters ==
    Obj(("standings" :> Arr("standings-A")) @@ ("teams" :> Arr("teams-A")))
\* rosters present and not a mapping
BodyRostersArray ==
    Obj(("standings" :> Arr("standings-A")) @@ ("teams" :> Arr("teams-A"))
        @@ ("rosters" :> Arr("players-A")))

\* what await parseResponse.json() can produce for a response with ok = true
OkBodies == {BodyA, BodyNoRosters, BodyRostersArray, Unparsable}

\* what await parseResponse.text() yields for a response with ok = false
\* ("" also stands for a rejected text(), which .catch turns into "")
ErrorTexts == {"", "League not found"}

NoResponse == [ok |-> FALSE, text |-> "", body |-> Undefined]

Responses ==
    {[ok |-> TRUE, text |-> "", body |-> b] : b \in OkBodies}
    \cup {[ok |-> FALSE, text |-> x, body |-> Undefined] : x \in ErrorTexts}

IsMapping(v) == v.t = "object"

(***************************************************************************)
(* What the user can type into the form fields.                            *)
(***************************************************************************)
PublicNameInputs == {<<" ", "L">>}
PublicIdInputs == {<<"1", "a">>, <<>>}
PrivateNameInputs == {<<"P", " ">>}
PrivateIdInputs == {<<"-", "2">>}
SwidInputs == {<<" ", "s">>}
EspnS2Inputs == {<<"e">>}

IdleCall ==
    [pc |-> "idle", id |-> <<>>, name |-> <<>>, seq |-> 0, typed |-> <<>>,
     request |-> Undefined, response |-> NoResponse]

NoGood == [seq |-> 0, data |-> Null, edited |-> FALSE]

\* the connect form as constructed and nothing in flight
FormInit ==
    /\ mode = "public"
    /\ privateTab = "credentials"
    /\ publicLeagueName = <<>>
    /\ publicLeagueId = <<>>
    /\ privateLeagueName = <<>>
    /\ privateLeagueId = <<>>
    /\ swid = <<>>
    /\ espnS2 = <<>>
    /\ publicStatus = "idle"
    /\ publicMessage = Null
    /\ privateStatus = "idle"
    /\ privateMessage = Null
    /\ publicCall = IdleCall
    /\ privateCall = IdleCall
    /\ timers = {}
    /\ route = Null
    /\ submitCount = 0
    /\ lastGood = NoGood

ConnectInit ==
    /\ FormInit
    /\ leagueData = Null

\* the derived constants of a render (lines 48-49)
publicLeagueIdSanitized == sanitizeLeagueId(publicLeagueId)
privateLeagueIdSanitized == sanitizeLeagueId(privateLeagueId)

\* which form is rendered
PublicFormShown == mode = "public"
PrivateFormShown == mode = "private" /\ privateTab = "credentials"

formVars == <<publicLeagueName, publicLeagueId, privateLeagueName,
              privateLeagueId, swid, espnS2>>
publicVars == <<publicLeagueName, publicLeagueId, publicStatus, publicMessage,
                publicCall>>
privateVars == <<privateLeagueName, privateLeagueId, swid, espnS2,
                 privateStatus, privateMessage, privateCall>>
storeVars == <<leagueData, timers, route, lastGood>>

SetMode(m) ==
    /\ mode' = m
    /\ UNCHANGED <<privateTab, formVars, publicStatus, publicMessage,
                   privateStatus, privateMessage, publicCall, privateCall,
                   storeVars, submitCount, pageVars>>

SetPrivateTab(tab) ==
    /\ mode = "private"
    /\ privateTab' = tab
    /\ UNCHANGED <<mode, formVars, publicStatus, publicMessage,
                   privateStatus, privateMessage, publicCall, privateCall,
                   storeVars, submitCount, pageVars>>

\* onChange of the public inputs
TypePublic ==
    /\ PublicFormShown
    /\ \/ \E v \in PublicNameInputs :
             publicLeagueName' = v /\ UNCHANGED publicLeagueId
       \/ \E v \in PublicIdInputs :
             publicLeagueId' = v /\ UNCHANGED publicLeagueName
    /\ UNCHANGED <<mode, privateTab, privateVars, publicStatus, publicMessage,
                   publicCall, storeVars, submitCount, pageVars>>

\* onChange of the private inputs
TypePrivate ==
    /\ PrivateFormShown
    /\ \/ \E v \in PrivateNameInputs :
             privateLeagueName' = v
             /\ UNCHANGED <<privateLeagueId, swid, espnS2>>
       \/ \E v \in PrivateIdInputs :
             privateLeagueId' = v
             /\ UNCHANGED <<privateLeagueName, swid, espnS2>>
       \/ \E v \in SwidInputs :
             swid' = v /\ UNCHANGED <<privateLeagueName, privateLeagueId, espnS2>>
       \/ \E v \in EspnS2Inputs :
             espnS2' = v /\ UNCHANGED <<privateLeagueName, privateLeagueId, swid>>
    /\ UNCHANGED <<mode, privateTab, publicVars, privateStatus, privateMessage,
                   privateCall, storeVars, submitCount, pageVars>>

(***************************************************************************)
(* onSubmitPublic / onSubmitPrivate.  Each handler is one async function:  *)
(* it runs to its first await (fetch), resumes when the fetch settles,     *)
(* awaits the body (text() of a failed response, json() of an OK one) and  *)
(* resumes again.  Between two awaits anything else may run.               *)
(***************************************************************************)
PublicRequest(id, name) ==
    Obj(("leagueName" :> Str(name)) @@ ("leagueId" :> Str(id))
        @@ ("source" :> Str(<<"public">>)))

PrivateRequest(id, name) ==
    Obj(("leagueName" :> Str(name)) @@ ("leagueId" :> Str(id))
        @@ ("source" :> Str(<<"private">>))
        @@ ("swid" :> Str(Trim(swid))) @@ ("espn_s2" :> Str(Trim(espnS2))))

\* the object literal with the League ID taken from the field as it is when
\* the response has arrived
SnapshotOfCurrentField(call) ==
    LET responseData == call.response.body.v
        id == IF call.typed[2] \in PublicIdInputs
              THEN sanitizeLeagueId(publicLeagueId)
              ELSE sanitizeLeagueId(privateLeagueId)
    IN  ("leagueName" :> Str(NameOrDefault(call.name)))
        @@ ("leagueId" :> Str(id))
        @@ ("standings" :> Get(responseData, "standings"))
        @@ ("teams" :> Get(responseData, "teams"))
        @@ ("rosters" :> Get(responseData, "rosters"))

\* the object literal handed to JSON.stringify (lines 79-85, 134-140)
Snapshot(call) ==
    LET responseData == call.response.body.v
    IN  ("leagueName" :> Str(NameOrDefault(call.name)))
        @@ ("leagueId" :> Str(call.id))
        @@ ("standings" :> Get(responseData, "standings"))
        @@ ("teams" :> Get(responseData, "teams"))
        @@ ("rosters" :> Get(responseData, "rosters"))

\* the dashboard URL of the redirect (lines 95, 152)
DashboardUrl(call) ==
    [leagueId |-> call.id, leagueName |-> NameOrDefault(call.name)]

\* the message of the error a failed step throws
FetchError == Str("Failed to fetch")
TextError(text) == Str(IF text # "" THEN text ELSE "Request failed")
\* a failed json() step that leaves the message empty
JsonErrorWithoutMessage(body) == Null

JsonError(body) ==
    Str(IF body = Unparsable THEN "Unexpected token in JSON"
        ELSE "Cannot read properties of null")

\* json() resolved with something whose properties can be read
BodyReadable(call) == call.response.body.t = "object"

\* history: the successful connect submitted last
\* (edited: the League ID field of its form was changed while it was in
\* flight)
NoteSuccess(call, fields) ==
    lastGood' = IF call.seq > lastGood.seq
                THEN [seq |-> call.seq, data |-> JSONStringify(Snapshot(call)),
                      edited |-> fields[2] # call.typed[2]]
                ELSE lastGood

\* lines 51-69: up to the await of fetch
OnSubmitPublic ==
    /\ PublicFormShown
    /\ publicStatus # "loading"
    /\ submitCount < MaxSubmits
    /\ LET id == publicLeagueIdSanitized
           name == Trim(publicLeagueName)
       IN  IF id = <<>>
           THEN UNCHANGED <<publicStatus, publicMessage, publicCall, submitCount>>
           ELSE /\ publicStatus' = "loading"
                /\ publicMessage' = Null
                /\ submitCount' = submitCount + 1
                /\ publicCall' = [pc |-> "fetch", id |-> id, name |-> name,
                                  seq |-> submitCount + 1,
                                  typed |-> <<publicLeagueName,
                                              publicLeagueId>>,
                                  request |-> PublicRequest(id, name),
                                  response |-> NoResponse]
    /\ UNCHANGED <<mode, privateTab, formVars, privateStatus, privateMessage,
                   privateCall, storeVars, pageVars>>

\* a catch block that empties the fields of the public form as well
PublicCatchClearsFields(message) ==
    /\ publicStatus' = "error"
    /\ publicMessage' = message
    /\ publicCall' = IdleCall
    /\ publicLeagueName' = <<>>
    /\ publicLeagueId' = <<>>
    /\ UNCHANGED <<mode, privateTab, privateLeagueName, privateLeagueId, swid,
                   espnS2, privateStatus, privateMessage, privateCall,
                   storeVars, submitCount, pageVars>>

\* lines 97-101: the catch block
PublicCatch(message) ==
    /\ publicStatus' = "error"
    /\ publicMessage' = message
    /\ publicCall' = IdleCall
    /\ UNCHANGED <<mode, privateTab, formVars, privateStatus, privateMessage,
                   privateCall, storeVars, submitCount, pageVars>>

\* lines 61-73: the fetch settles
PublicFetchSettles ==
    /\ publicCall.pc = "fetch"
    /\ \/ PublicCatch(FetchError)
       \/ \E r \in Responses :
             /\ publicCall' = [publicCall EXCEPT
                                 !.pc = IF r.ok THEN "json" ELSE "text",
                                 !.response = r]
             /\ UNCHANGED <<mode, privateTab, formVars, publicStatus,
                            publicMessage, privateStatus, privateMessage,
                            privateCall, storeVars, submitCount, pageVars>>

\* lines 71-72: text() of a failed response settles
PublicTextSettles ==
    /\ publicCall.pc = "text"
    /\ PublicCatch(TextError(publicCall.response.text))

\* lines 76-96: json() settles
PublicJsonSettles ==
    /\ publicCall.pc = "json"
    /\ IF ~BodyReadable(publicCall)
       THEN PublicCatch(JsonError(publicCall.response.body))
       ELSE /\ leagueData' = JSONStringify(Snapshot(publicCall))
            /\ publicLeagueName' = <<>>
            /\ publicLeagueId' = <<>>
            /\ publicStatus' = "success"
            /\ publicMessage' = Str("League connected! Redirecting...")
            /\ timers' = timers \cup {DashboardUrl(publicCall)}
            /\ publicCall' = IdleCall
            /\ NoteSuccess(publicCall, <<publicLeagueName, publicLeagueId>>)
            /\ UNCHANGED <<mode, privateTab, privateVars, route, submitCount,
                           pageVars>>

\* lines 104-124
OnSubmitPrivate ==
    /\ PrivateFormShown
    /\ privateStatus # "loading"
    /\ submitCount < MaxSubmits
    /\ LET id == privateLeagueIdSanitized
           name == Trim(privateLeagueName)
       IN  IF id = <<>> \/ Trim(swid) = <<>> \/ Trim(espnS2) = <<>>
           THEN UNCHANGED <<privateStatus, privateMessage, privateCall,
                            submitCount>>
           ELSE /\ privateStatus' = "loading"
                /\ privateMessage' = Null
                /\ submitCount' = submitCount + 1
                /\ privateCall' = [pc |-> "fetch", id |-> id, name |-> name,
                                   seq |-> submitCount + 1,
                                   typed |-> <<privateLeagueName,
                                               privateLeagueId, swid, espnS2>>,
                                   request |-> PrivateRequest(id, name),
                                   response |-> NoResponse]
    /\ UNCHANGED <<mode, privateTab, formVars, publicStatus, publicMessage,
                   publicCall, storeVars, pageVars>>

\* lines 154-158
PrivateCatch(message) ==
    /\ privateStatus' = "error"
    /\ privateMessage' = message
    /\ privateCall' = IdleCall
    /\ UNCHANGED <<mode, privateTab, formVars, publicStatus, publicMessage,
                   publicCall, storeVars, submitCount, pageVars>>

\* lines 114-128
PrivateFetchSettles ==
    /\ privateCall.pc = "fetch"
    /\ \/ PrivateCatch(FetchError)
       \/ \E r \in Responses :
             /\ privateCall' = [privateCall EXCEPT
                                  !.pc = IF r.ok THEN "json" ELSE "text",
                                  !.response = r]
             /\ UNCHANGED <<mode, privateTab, formVars, publicStatus,
                            publicMessage, privateStatus, privateMessage,
                            publicCall, storeVars, submitCount, pageVars>>

\* lines 126-127
PrivateTextSettles ==
    /\ privateCall.pc = "text"
    /\ PrivateCatch(TextError(privateCall.response.text))

\* lines 131-153
PrivateJsonSettles ==
    /\ privateCall.pc = "json"
    /\ IF ~BodyReadable(privateCall)
       THEN PrivateCatch(JsonError(privateCall.response.body))
       ELSE /\ leagueData' = JSONStringify(Snapshot(privateCall))
            /\ privateLeagueName' = <<>>
            /\ privateLeagueId' = <<>>
            /\ swid' = <<>>
            /\ espnS2' = <<>>
            /\ privateStatus' = "success"
            /\ privateMessage' = Str("League connected! Redirecting...")
            /\ timers' = timers \cup {DashboardUrl(privateCall)}
            /\ privateCall' = IdleCall
            /\ NoteSuccess(privateCall, <<privateLeagueName, privateLeagueId,
                                         swid, espnS2>>)
            /\ UNCHANGED <<mode, privateTab, publicVars, route, submitCount,
                           pageVars>>

\* lines 94-96, 151-153: a redirect timer fires
RouterPush ==
    \E url \in timers :
        /\ route' = Obj(url)
        /\ timers' = timers \ {url}
        /\ UNCHANGED <<mode, privateTab, formVars, publicStatus, publicMessage,
                       privateStatus, privateMessage, publicCall, privateCall,
                       leagueData, lastGood, submitCount, pageVars>>

(***************************************************************************)
(* Numbers.  The data holds integers; a quotient is an exact fraction      *)
(* [n, d] in lowest terms with d > 0, and Math.sqrt is exact to 1/Prec     *)
(* (rounded down).                                                         *)
(***************************************************************************)
\* Math.sqrt keeps this many parts of a unit
Prec == 1000

Abs(x) == IF x < 0 THEN -x ELSE x

RECURSIVE GCD(_, _)
GCD(a, b) == IF b = 0 THEN a ELSE GCD(b, a % b)

Rat(n, d) ==
    LET g == GCD(Abs(n), Abs(d))
        sg == IF d < 0 THEN -1 ELSE 1
    IN  [n |-> (sg * n) \div g, d |-> (sg * d) \div g]

FromInt(i) == [n |-> i, d |-> 1]
RAdd(a, b) == Rat(a.n * b.d + b.n * a.d, a.d * b.d)
RSub(a, b) == Rat(a.n * b.d - b.n * a.d, a.d * b.d)
RMul(a, b) == Rat(a.n * b.n, a.d * b.d)
RDiv(a, b) == Rat(a.n * b.d, a.d * b.n)
RLt(a, b) == a.n * b.d < b.n * a.d
RLeq(a, b) == a.n * b.d <= b.n * a.d
\* Math.max, Math.min of two numbers
RMax(a, b) == IF RLt(a, b) THEN b ELSE a
RMin(a, b) == IF RLt(b, a) THEN b ELSE a

\* the largest k in lo..hi with k * k <= x
RECURSIVE SqrtSearch(_, _, _)
SqrtSearch(x, lo, hi) ==
    IF lo >= hi THEN lo
    ELSE LET mid == (lo + hi + 1) \div 2
         IN  IF mid * mid <= x THEN SqrtSearch(x, mid, hi)
             ELSE SqrtSearch(x, lo, mid - 1)

ISqrt(x) == SqrtSearch(x, 0, IF x < 46340 THEN x ELSE 46340)

\* Math.sqrt of a fraction >= 0
RSqrt(q) == Rat(ISqrt((q.n * Prec * Prec) \div q.d), Prec)

(***************************************************************************)
(* Week keys are decimal strings: (i + 1).toString() and Number(week).     *)
(***************************************************************************)
DigitOf(i) ==
    CASE i = 0 -> "0" [] i = 1 -> "1" [] i = 2 -> "2" [] i = 3 -> "3"
      [] i = 4 -> "4" [] i = 5 -> "5" [] i = 6 -> "6" [] i = 7 -> "7"
      [] i = 8 -> "8" [] i = 9 -> "9"

ValueOf(c) == CHOOSE i \in 0..9 : DigitOf(i) = c

\* Number.prototype.toString of an integer >= 0
RECURSIVE NumberToString(_)
NumberToString(i) ==
    IF i < 10 THEN <<DigitOf(i)>>
    ELSE Append(NumberToString(i \div 10), DigitOf(i % 10))

\* Number(week) of a string of digits
RECURSIVE Number(_)
Number(s) ==
    IF s = <<>> THEN 0
    ELSE 10 * Number(SubSeq(s, 1, Len(s) - 1)) + ValueOf(s[Len(s)])

(***************************************************************************)
(* PlayerPage: the values a render derives from the stored player          *)
(* (lines 258-300).                                                        *)
(***************************************************************************)
\* the season's weeks (line 262)
NumWeeks == 17

EmptyBreakdown == [k \in {} |-> 0]

\* the line synthesized for a week without data (lines 269-275)
EmptyStats ==
    [points |-> 0, projected_points |-> 0, avg_points |-> 0,
     breakdown |-> EmptyBreakdown, projected_breakdown |-> EmptyBreakdown]

\* player.stats || {}
StatsOf(p) == IF p.stats.t = "object" THEN p.stats.v ELSE [k \in {} |-> Undefined]

\* allWeeks as a zero-based range would give it
AllWeeksFromZero == [i \in 1..NumWeeks |-> NumberToString(i - 1)]

\* line 262
allWeeks == [i \in 1..NumWeeks |-> NumberToString(i)]

\* the entry, were the stored line never used
WeeklyStatsEntryAlwaysEmpty(p, week) == <<week, EmptyStats>>

\* lines 263-276: one entry of the map
WeeklyStatsEntry(p, week) ==
    LET existingStats == Get(StatsOf(p), week)
    IN  IF existingStats # Undefined THEN <<week, existingStats>>
        ELSE <<week, EmptyStats>>

weeklyStats(p) == [i \in 1..Len(allWeeks) |-> WeeklyStatsEntry(p, allWeeks[i])]

\* the keys of a set in ascending Number order
RECURSIVE SortWeeks(_)
SortWeeks(keys) ==
    IF keys = {} THEN <<>>
    ELSE LET first == CHOOSE k \in keys : \A o \in keys : Number(k) <= Number(o)
         IN  <<first>> \o SortWeeks(keys \ {first})

\* the entries, were week "0" kept among them
ActualWeeklyStatsWithWeekZero(p) ==
    LET stats == StatsOf(p)
        weeks == SortWeeks(DOMAIN stats)
    IN  [i \in 1..Len(weeks) |-> <<weeks[i], stats[weeks[i]]>>]

\* lines 279-281
actualWeeklyStats(p) ==
    LET stats == StatsOf(p)
        weeks == SortWeeks({w \in DOMAIN stats : w # <<"0">>})
    IN  [i \in 1..Len(weeks) |-> <<weeks[i], stats[weeks[i]]>>]

IsPositive(x) == x > 0

\* line 285
weeklyPoints(p) ==
    LET actual == actualWeeklyStats(p)
    IN  SelectSeq([i \in 1..Len(actual) |-> actual[i][2].points], IsPositive)

\* line 284
gamesPlayed(p) == Len(weeklyPoints(p))

RECURSIVE SumSeq(_)
SumSeq(q) == IF q = <<>> THEN 0 ELSE Head(q) + SumSeq(Tail(q))

\* the ratio taken the wrong way round
PerformanceVsProjectionSwapped(p) ==
    IF p.projected_total_points > 0
    THEN RSub(RMul(RDiv(FromInt(p.projected_total_points),
                        FromInt(p.total_points)),
                   FromInt(100)),
              FromInt(100))
    ELSE FromInt(0)

\* lines 288-290
performanceVsProjection(p) ==
    IF p.projected_total_points > 0
    THEN RSub(RMul(RDiv(FromInt(p.total_points),
                        FromInt(p.projected_total_points)),
                   FromInt(100)),
              FromInt(100))
    ELSE FromInt(0)

\* line 291
isOverperforming(p) == RLt(FromInt(0), performanceVsProjection(p))

\* the mean the deviations are taken around (line 295)
DeviationCentre(p) == FromInt(p.avg_points)

\* lines 294-296
pointsStdDev(p) ==
    LET pts == weeklyPoints(p)
        sq(x) == RMul(RSub(FromInt(x), DeviationCentre(p)),
                      RSub(FromInt(x), DeviationCentre(p)))
        sum[i \in 0..Len(pts)] ==
            IF i = 0 THEN FromInt(0) ELSE RAdd(sum[i - 1], sq(pts[i]))
    IN  IF Len(pts) > 1
        THEN RSqrt(RDiv(sum[Len(pts)], FromInt(Len(pts))))
        ELSE FromInt(0)

\* the clamp without its lower bound
ClampTo100Only(x) == RMin(FromInt(100), x)

\* Math.max(0, Math.min(100, x))
Clamp0To100(x) == RMax(FromInt(0), RMin(FromInt(100), x))

\* line 297
consistencyScore(p) ==
    IF p.avg_points > 0
    THEN Clamp0To100(RMul(RSub(FromInt(1),
                               RDiv(pointsStdDev(p), FromInt(p.avg_points))),
                          FromInt(100)))
    ELSE FromInt(0)

\* line 286: Math.max(...weeklyPoints, 0)
maxWeek(p) ==
    LET pts == weeklyPoints(p)
        best[i \in 0..Len(pts)] ==
            IF i = 0 THEN 0
            ELSE IF pts[i] > best[i - 1] THEN pts[i] ELSE best[i - 1]
    IN  best[Len(pts)]

\* Infinity, which Math.min gives back when no value is below it
Infinity == [finite |-> FALSE, v |-> 0]
Finite(x) == [finite |-> TRUE, v |-> x]

\* line 287: Math.min(...weeklyPoints.filter(p => p > 0), Infinity)
minWeek(p) ==
    LET pts == SelectSeq(weeklyPoints(p), IsPositive)
        least[i \in 0..Len(pts)] ==
            IF i = 0 THEN Infinity
            ELSE IF ~least[i - 1].finite \/ pts[i] < least[i - 1].v
                 THEN Finite(pts[i]) ELSE least[i - 1]
    IN  least[Len(pts)]

\* the Floor card's value (line 475): minWeek === Infinity ? 0 : minWeek
FloorShown(p) == IF minWeek(p) = Infinity THEN 0 ELSE minWeek(p).v

\* the week's test with the comparison strict
BeatsProjectionStrictly(s) == s.points > s.projected_points /\ s.points > 0

\* the test of line 300 on one week's line
BeatsProjection(s) == s.points >= s.projected_points /\ s.points > 0

\* line 300
weeksBeatProjection(p) ==
    LET actual == actualWeeklyStats(p)
    IN  Cardinality({i \in 1..Len(actual) : BeatsProjection(actual[i][2])})

(***************************************************************************)
(* The season totals and the stats of a position (lines 98-176, 302-332,   *)
(* 829-849).                                                               *)
(***************************************************************************)
\* one row of STAT_CONFIG: its category and, when it names any, its
\* positions
Config(cat, named, pos) ==
    [category |-> cat, hasPositions |-> named, positions |-> pos]

\* the keys of STAT_CONFIG, in the order of the table (lines 98-166)
StatKeys ==
    <<"passingAttempts", "passingCompletions", "passingIncompletions",
      "passingYards", "passingTouchdowns", "passingInterceptions",
      "passing2PtConversions", "passingCompletionPercentage",
      "passing300To399YardGame", "passing400PlusYardGame",
      "passing40PlusYardTD", "passingTimesSacked", "passingCompletionYards",
      "passingFirstDowns", "rushingAttempts", "rushingYards",
      "rushingTouchdowns", "rushing2PtConversions",
      "rushingYardsPerAttempt", "rushing100To199YardGame",
      "rushingFirstDowns", "receivingReceptions", "receivingTargets",
      "receivingYards", "receivingTouchdowns", "receiving2PtConversions",
      "receivingYardsAfterCatch", "receivingYardsPerReception",
      "receivingFirstDowns", "madeFieldGoals", "attemptedFieldGoals",
      "missedFieldGoals", "madeFieldGoals50Plus", "madeFieldGoals40To49",
      "madeFieldGoals1To39", "madeExtraPoints", "missedExtraPoints",
      "defensiveSacks", "defensiveInterceptions",
      "defensiveFumbleRecoveries", "defensiveForcedFumbles",
      "defensiveTouchdowns", "defensivePointsAllowed", "defensiveSafeties",
      "defensiveBlockedKicks", "defensiveSoloTackles",
      "defensiveTotalTackles", "defensivePassesDefended",
      "kickReturnTouchdowns", "puntReturnTouchdowns",
      "interceptionReturnTouchdowns", "fumbleReturnTouchdowns", "fumbles",
      "lostFumbles", "turnovers", "fumblesTotal">>

\* lines 98-166
STAT_CONFIG ==
    ("passingAttempts" :> Config("passing", TRUE, {"QB"})) @@
    ("passingCompletions" :> Config("passing", TRUE, {"QB"})) @@
    ("passingIncompletions" :> Config("passing", TRUE, {"QB"})) @@
    ("passingYards" :> Config("passing", TRUE, {"QB"})) @@
    ("passingTouchdowns" :> Config("passing", TRUE, {"QB"})) @@
    ("passingInterceptions" :> Config("passing", TRUE, {"QB"})) @@
    ("passing2PtConversions" :> Config("passing", TRUE, {"QB"})) @@
    ("passingCompletionPercentage" :> Config("passing", TRUE, {"QB"})) @@
    ("passing300To399YardGame" :> Config("passing", TRUE, {"QB"})) @@
    ("passing400PlusYardGame" :> Config("passing", TRUE, {"QB"})) @@
    ("passing40PlusYardTD" :> Config("passing", TRUE, {"QB"})) @@
    ("passingTimesSacked" :> Config("passing", TRUE, {"QB"})) @@
    ("passingCompletionYards" :> Config("passing", TRUE, {"QB"})) @@
    ("passingFirstDowns" :> Config("passing", TRUE, {"QB"})) @@
    ("rushingAttempts" :> Config("rushing", TRUE, {"RB", "QB", "WR"})) @@
    ("rushingYards" :> Config("rushing", TRUE, {"RB", "QB", "WR"})) @@
    ("rushingTouchdowns" :> Config("rushing", TRUE, {"RB", "QB", "WR"})) @@
    ("rushing2PtConversions" :> Config("rushing", TRUE, {"RB", "QB"})) @@
    ("rushingYardsPerAttempt" :> Config("rushing", TRUE, {"RB", "QB", "WR"})) @@
    ("rushing100To199YardGame" :> Config("rushing", TRUE, {"RB"})) @@
    ("rushingFirstDowns" :> Config("rushing", TRUE, {"RB", "QB"})) @@
    ("receivingReceptions" :> Config("receiving", TRUE, {"WR", "TE", "RB"})) @@
    ("receivingTargets" :> Config("receiving", TRUE, {"WR", "TE", "RB"})) @@
    ("receivingYards" :> Config("receiving", TRUE, {"WR", "TE", "RB"})) @@
    ("receivingTouchdowns" :> Config("receiving", TRUE, {"WR", "TE", "RB"})) @@
    ("receiving2PtConversions" :> Config("receiving", TRUE, {"WR", "TE", "RB"})) @@
    ("receivingYardsAfterCatch" :> Config("receiving", TRUE, {"WR", "TE", "RB"})) @@
    ("receivingYardsPerReception" :> Config("receiving", TRUE, {"WR", "TE", "RB"})) @@
    ("receivingFirstDowns" :> Config("receiving", TRUE, {"WR", "TE", "RB"})) @@
    ("madeFieldGoals" :> Config("kicking", TRUE, {"K"})) @@
    ("attemptedFieldGoals" :> Config("kicking", TRUE, {"K"})) @@
    ("missedFieldGoals" :> Config("kicking", TRUE, {"K"})) @@
    ("madeFieldGoals50Plus" :> Config("kicking", TRUE, {"K"})) @@
    ("madeFieldGoals40To49" :> Config("kicking", TRUE, {"K"})) @@
    ("madeFieldGoals1To39" :> Config("kicking", TRUE, {"K"})) @@
    ("madeExtraPoints" :> Config("kicking", TRUE, {"K"})) @@
    ("missedExtraPoints" :> Config("kicking", TRUE, {"K"})) @@
    ("defensiveSacks" :> Config("defense", TRUE, {"D/ST"})) @@
    ("defensiveInterceptions" :> Config("defense", TRUE, {"D/ST"})) @@
    ("defensiveFumbleRecoveries" :> Config("defense", TRUE, {"D/ST"})) @@
    ("defensiveForcedFumbles" :> Config("defense", TRUE, {"D/ST"})) @@
    ("defensiveTouchdowns" :> Config("defense", TRUE, {"D/ST"})) @@
    ("defensivePointsAllowed" :> Config("defense", TRUE, {"D/ST"})) @@
    ("defensiveSafeties" :> Config("defense", TRUE, {"D/ST"})) @@
    ("defensiveBlockedKicks" :> Config("defense", TRUE, {"D/ST"})) @@
    ("defensiveSoloTackles" :> Config("defense", TRUE, {"D/ST"})) @@
    ("defensiveTotalTackles" :> Config("defense", TRUE, {"D/ST"})) @@
    ("defensivePassesDefended" :> Config("defense", TRUE, {"D/ST"})) @@
    ("kickReturnTouchdowns" :> Config("defense", TRUE, {"D/ST"})) @@
    ("puntReturnTouchdowns" :> Config("defense", TRUE, {"D/ST"})) @@
    ("interceptionReturnTouchdowns" :> Config("defense", TRUE, {"D/ST"})) @@
    ("fumbleReturnTouchdowns" :> Config("defense", TRUE, {"D/ST"})) @@
    ("fumbles" :> Config("misc", FALSE, {})) @@
    ("lostFumbles" :> Config("misc", FALSE, {})) @@
    ("turnovers" :> Config("misc", FALSE, {})) @@
    ("fumblesTotal" :> Config("misc", FALSE, {}))

Range(q) == {q[i] : i \in 1..Len(q)}

RECURSIVE SetToSeq(_)
SetToSeq(S) ==
    IF S = {} THEN <<>>
    ELSE LET x == CHOOSE y \in S : TRUE IN <<x>> \o SetToSeq(S \ {x})

\* Object.entries(breakdown): the keys of a stored breakdown, listed in the
\* order of the table, the keys the table lacks after them
Entries(bd) ==
    LET held(k) == k \in DOMAIN bd
    IN  SelectSeq(StatKeys, held) \o SetToSeq(DOMAIN bd \ Range(StatKeys))

\* the test, were the positions of a row never looked at
IsApplicableAnyPosition(stat, position) == stat \in DOMAIN STAT_CONFIG

\* lines 322-326 and 833-836: the table has the key, and its row names no
\* positions or names this one
IsApplicable(stat, position) ==
    /\ stat \in DOMAIN STAT_CONFIG
    /\ \/ ~STAT_CONFIG[stat].hasPositions
       \/ position \in STAT_CONFIG[stat].positions

\* lines 307-309: the breakdown of one week added into the totals
AddWeek(breakdown, weekBreakdown) ==
    [stat \in DOMAIN breakdown \cup DOMAIN weekBreakdown |->
        (IF stat \in DOMAIN breakdown THEN breakdown[stat] ELSE 0)
        + (IF stat \in DOMAIN weekBreakdown THEN weekBreakdown[stat] ELSE 0)]

\* lines 306-310: the weeks of actualWeeklyStats added up
FoldWeeks(p) ==
    LET actual == actualWeeklyStats(p)
        acc[i \in 0..Len(actual)] ==
            IF i = 0 THEN EmptyBreakdown
            ELSE AddWeek(acc[i - 1], actual[i][2].breakdown)
    IN  acc[Len(actual)]

\* player.seasonTotals?.breakdown is an object of the stored player
HasTotalsBreakdown(p) == p.seasonTotals # Null

\* line 304: player.seasonTotals?.breakdown || {}
TotalsBreakdownOf(p) ==
    IF HasTotalsBreakdown(p) THEN p.seasonTotals.v.breakdown
    ELSE EmptyBreakdown

\* the season stats, were the weeks added up in every case
GetSeasonStatsAlwaysFolded(p) == AddWeek(TotalsBreakdownOf(p), FoldWeeks(p))

\* the season stats with the weeks added onto whatever the stored breakdown
\* holds, empty or not
GetSeasonStatsOntoStored(p) ==
    LET stored == TotalsBreakdownOf(p)
        folded == FoldWeeks(p)
    IN  [stat \in DOMAIN stored \cup DOMAIN folded |->
            (IF stat \in DOMAIN stored THEN stored[stat] ELSE 0)
            + (IF stat \in DOMAIN folded THEN folded[stat] ELSE 0)]

\* lines 303-314
getSeasonStats(p) ==
    IF DOMAIN TotalsBreakdownOf(p) = {} THEN FoldWeeks(p)
    ELSE TotalsBreakdownOf(p)

\* the player after getSeasonStats has run: with an empty breakdown in the
\* stored season totals, line 304 takes that very object and line 308
\* assigns into it
AfterSeasonStats(p) ==
    IF HasTotalsBreakdown(p) /\ DOMAIN TotalsBreakdownOf(p) = {}
    THEN [p EXCEPT !.seasonTotals = Obj([breakdown |-> FoldWeeks(p)])]
    ELSE p

\* lines 319-332: the season stats of the player's position by category
statsByCategory(p) ==
    LET seasonBreakdown == getSeasonStats(p)
        kept(stat) == IsApplicable(stat, p.position)
        stats == SelectSeq(Entries(seasonBreakdown), kept)
        categories == {STAT_CONFIG[stat].category : stat \in Range(stats)}
    IN  [category \in categories |->
            LET here(stat) == STAT_CONFIG[stat].category = category
                keys == SelectSeq(stats, here)
            IN  [i \in 1..Len(keys) |->
                    [key |-> keys[i], value |-> seasonBreakdown[keys[i]]]]]

\* the stats a week's card shows at most (line 837)
WeekCardLimit == 12

\* lines 832-837: the stats a week's card shows
WeekCardStats(breakdown, position) ==
    LET kept(stat) == IsApplicable(stat, position)
        stats == SelectSeq(Entries(breakdown), kept)
        shown == IF Len(stats) < WeekCardLimit THEN Len(stats)
                 ELSE WeekCardLimit
    IN  [i \in 1..shown |-> [key |-> stats[i], value |-> breakdown[stats[i]]]]

\* lines 519-528: the cards of the weekly tab
WeekCards(p) ==
    LET weeks == weeklyStats(p)
    IN  [i \in 1..Len(weeks) |->
            WeekCardStats(weeks[i][2].breakdown, p.position)]

(***************************************************************************)
(* The ownership cards (lines 446-459, 719-724).                           *)
(***************************************************************************)
\* Number.prototype.toFixed(0): the nearest integer, a half away from zero
ToFixed0(x) ==
    IF x.n >= 0 THEN (2 * x.n + x.d) \div (2 * x.d)
    ELSE -((2 * (-x.n) + x.d) \div (2 * x.d))

\* the width of the bar of a MetricCard (line 721): Math.min(progress, 100)
BarWidth(progress) == RMin(progress, FromInt(100))

\* lines 447-459: the Rostered and Started cards
OwnershipCards(p) ==
    [rostered |-> [value |-> ToFixed0(p.percent_owned),
                   width |-> BarWidth(p.percent_owned)],
     started |-> [value |-> ToFixed0(p.percent_started),
                  width |-> BarWidth(p.percent_started)]]

(***************************************************************************)
(* The Beat Proj card and the cards of the season tab (lines 169-176, 259, *)
(* 467-472, 533-587).                                                      *)
(***************************************************************************)
\* what a division 0 / 0 of two numbers yields
NotANumber == [n |-> 0, d |-> 0]

\* what a division x / 0 with x # 0 yields, with the sign of x
Unbounded(sign) == [n |-> sign, d |-> 0]

\* whether a number is one of the values a division by zero yields
IsProperNumber(x) == x.d # 0

\* the operator / on two numbers
JSDivide(a, b) ==
    IF ~IsProperNumber(a) \/ ~IsProperNumber(b) THEN NotANumber
    ELSE IF b.n # 0 THEN RDiv(a, b)
    ELSE IF a.n = 0 THEN NotANumber
    ELSE Unbounded(IF a.n < 0 THEN -1 ELSE 1)

\* the operator * on two numbers
JSTimes(a, b) ==
    IF IsProperNumber(a) /\ IsProperNumber(b) THEN RMul(a, b)
    ELSE IF a = NotANumber \/ b = NotANumber \/ a.n = 0 \/ b.n = 0
    THEN NotANumber
    ELSE Unbounded(IF (a.n < 0) = (b.n < 0) THEN 1 ELSE -1)

\* the divisor of the Beat Proj card taken as the games played themselves
GamesDivisorUnguarded(p) == gamesPlayed(p)

\* Math.max(gamesPlayed, 1) of line 470
GamesDivisor(p) == IF gamesPlayed(p) < 1 THEN 1 ELSE gamesPlayed(p)

\* the progress of the Beat Proj card (line 470)
BeatProjProgress(p) ==
    JSTimes(JSDivide(FromInt(weeksBeatProjection(p)),
                     FromInt(GamesDivisor(p))),
            FromInt(100))

\* lines 169-176
POSITION_CATEGORIES ==
    "QB" :> <<"passing", "rushing", "misc">> @@
    "RB" :> <<"rushing", "receiving", "misc">> @@
    "WR" :> <<"receiving", "rushing", "misc">> @@
    "TE" :> <<"receiving", "rushing", "misc">> @@
    "K" :> <<"kicking">> @@
    "D/ST" :> <<"defense">>

\* line 259
categories(p) ==
    IF p.position \in DOMAIN POSITION_CATEGORIES
    THEN POSITION_CATEGORIES[p.position]
    ELSE <<"rushing", "receiving", "misc", "team">>

\* the stats a card gives a per-game average for at most (line 574)
PerGameLimit == 3

\* lines 570-581: the per-game averages of a card over the games played,
\* none when the guard of line 570 fails
PerGameAverages(games, category, categoryStats) ==
    IF games > 0 /\ category # "team" /\ category # "misc"
    THEN LET shown == IF Len(categoryStats) < PerGameLimit
                      THEN Len(categoryStats) ELSE PerGameLimit
         IN  [i \in 1..shown |->
                 [key |-> categoryStats[i].key,
                  value |-> JSDivide(FromInt(categoryStats[i].value),
                                     FromInt(games))]]
    ELSE <<>>

\* lines 542-586: the card of one category
CategoryCard(games, category, categoryStats) ==
    [category |-> category,
     stats |-> categoryStats,
     perGame |-> PerGameAverages(games, category, categoryStats)]

\* lines 536-587: the category cards of the season tab, in the order of the
\* position's categories; statsByCategory and gamesPlayed are the values the
\* render computed once (lines 284 and 319)
SeasonCards(p) ==
    IF DOMAIN getSeasonStats(p) = {} THEN <<>>
    ELSE CHOOSE cards \in
             {LET rendered(category) ==
                      /\ category \in DOMAIN byCategory
                      /\ Len(byCategory[category]) > 0
                  shown == SelectSeq(categories(p), rendered)
              IN  [i \in 1..Len(shown) |->
                      CategoryCard(games, shown[i], byCategory[shown[i]])] :
                 byCategory \in {statsByCategory(p)},
                 games \in {gamesPlayed(p)}} : TRUE

(***************************************************************************)
(* The stored player records the page is rendered over.                    *)
(***************************************************************************)
\* weeks a stored stats mapping holds at most
MaxStatEntries == 3

\* the week keys a stored stats mapping may use: pre-season "0", weeks of
\* the season, and "18", past its end
SourceWeeks == {<<"0">>, <<"2">>, <<"1", "7">>, <<"1", "8">>}

Line(pts, proj, bd) ==
    [points |-> pts, projected_points |-> proj, breakdown |-> bd,
     projected_breakdown |-> bd]

\* a breakdown holding every passing stat of the table
AllPassing ==
    [stat \in {k \in Range(StatKeys) : STAT_CONFIG[k].category = "passing"}
        |-> 1]

StatLines ==
    { Line(0, 0, EmptyBreakdown),
      Line(0, 0, "passingYards" :> 5),
      Line(2, 1, "passingYards" :> 2),
      Line(2, 3, "rushingYards" :> 1),
      Line(4, 4, AllPassing @@ ("unknownStat" :> 1)),
      Line(-1, 0, "fumbles" :> 1) }

\* the stats mappings over these week keys
StatsMapsOver(weeks) ==
    UNION {[W -> StatLines] :
             W \in {X \in SUBSET weeks : Cardinality(X) <= MaxStatEntries}}

StatsMaps == StatsMapsOver(SourceWeeks)

AvgPointsValues == {-1, 0, 1, 2}

\* <<total_points, projected_total_points>>
TotalsValues == {<<100, 0>>, <<120, 100>>, <<80, 100>>, <<100, 100>>, <<5, -10>>}

\* <<percent_owned, percent_started>>
PercentValues ==
    {<<FromInt(50), FromInt(20)>>, <<FromInt(150), FromInt(-5)>>,
     <<FromInt(100), FromInt(0)>>, <<Rat(199, 2), Rat(1, 2)>>}

\* the positions of the table and one it does not know
Positions == {"QB", "RB", "WR", "TE", "K", "D/ST", "LB"}

\* seasonTotals: null, with an empty breakdown, with a breakdown
SeasonTotalsValues ==
    {Null, Obj([breakdown |-> EmptyBreakdown]),
     Obj([breakdown |-> ("passingYards" :> 9) @@ ("fumbles" :> 2)
                          @@ ("madeFieldGoals" :> 3) @@ ("unknownStat" :> 1)])}

StoredPlayer(st, a, tp, pos, totals, pct) ==
    [loaded |-> TRUE, stats |-> st, avg_points |-> a,
     total_points |-> tp[1], projected_total_points |-> tp[2],
     position |-> pos, seasonTotals |-> totals,
     percent_owned |-> pct[1], percent_started |-> pct[2]]

\* the players the page is rendered over: every stats mapping with every
\* average; the totals and the ownership of one of them varied; every
\* position and season totals over the stats of weeks "0", "2" and "17"
Players ==
    {StoredPlayer(st, a, <<120, 100>>, "QB", Null,
                  <<FromInt(50), FromInt(20)>>) :
        st \in {Obj(m) : m \in StatsMaps} \cup {Undefined},
        a \in AvgPointsValues}
    \cup
    {StoredPlayer(Obj(<<"2">> :> Line(2, 1, "passingYards" :> 2)),
                  2, tp, "QB", Null, pct) :
        tp \in TotalsValues, pct \in PercentValues}
    \cup
    {StoredPlayer(Obj(m), 2, <<120, 100>>, pos, totals,
                  <<FromInt(50), FromInt(20)>>) :
        m \in StatsMapsOver({<<"0">>, <<"2">>, <<"1", "7">>}),
        pos \in Positions, totals \in SeasonTotalsValues}

NoPlayer == [loaded |-> FALSE]
NoView == [rendered |-> FALSE]
\* the dashboard page not mounted
NoDashboard == [mounted |-> FALSE]
NoBoard == [shown |-> FALSE]
\* the player page not opened, the ESPN-fetch form not shown, nothing run
NoPage == [mounted |-> FALSE]
NoEspnConnect == [mounted |-> FALSE]
NoPipeline == [started |-> FALSE]

RestInit ==
    /\ playerPage = NoPage
    /\ espnConnect = NoEspnConnect
    /\ pipeline = NoPipeline

Init ==
    /\ ConnectInit
    /\ player = NoPlayer
    /\ view = NoView
    /\ dashboard = NoDashboard
    /\ board = NoBoard
    /\ RestInit

Next ==
    \/ \E m \in {"public", "private"} : SetMode(m)
    \/ \E tab \in {"credentials", "instructions"} : SetPrivateTab(tab)
    \/ TypePublic
    \/ TypePrivate
    \/ OnSubmitPublic
    \/ PublicFetchSettles
    \/ PublicTextSettles
    \/ PublicJsonSettles
    \/ OnSubmitPrivate
    \/ PrivateFetchSettles
    \/ PrivateTextSettles
    \/ PrivateJsonSettles
    \/ RouterPush

Spec == Init /\ [][Next]_vars

\* the requests settle: a fetch that is awaited resolves or rejects, and so
\* does the text() or json() awaited after it
Settling ==
    /\ WF_vars(PublicFetchSettles)
    /\ WF_vars(PublicTextSettles)
    /\ WF_vars(PublicJsonSettles)
    /\ WF_vars(PrivateFetchSettles)
    /\ WF_vars(PrivateTextSettles)
    /\ WF_vars(PrivateJsonSettles)

FairSpec == Spec /\ Settling

(***************************************************************************)
(* The player page rendered over a stored player.                          *)
(***************************************************************************)
PlayerInit ==
    /\ ConnectInit
    /\ player \in Players
    /\ view = NoView
    /\ dashboard = NoDashboard
    /\ board = NoBoard
    /\ RestInit

\* what one render computes and shows (lines 258-332, 436-484, 519-528,
\* 533-587)
Rendered(p) ==
    [rendered |-> TRUE,
     weeklyStats |-> weeklyStats(p),
     gamesPlayed |-> gamesPlayed(p),
     weeklyPoints |-> weeklyPoints(p),
     performanceVsProjection |-> performanceVsProjection(p),
     isOverperforming |-> isOverperforming(p),
     pointsStdDev |-> pointsStdDev(p),
     consistencyScore |-> consistencyScore(p),
     maxWeek |-> maxWeek(p),
     minWeek |-> minWeek(p),
     floor |-> FloorShown(p),
     weeksBeatProjection |-> weeksBeatProjection(p),
     beatProjProgress |-> BeatProjProgress(p),
     seasonCards |-> SeasonCards(p),
     seasonBreakdown |-> getSeasonStats(p),
     statsByCategory |-> statsByCategory(p),
     weekCards |-> WeekCards(p),
     ownership |-> OwnershipCards(p)]

\* the render once loading has ended and a player is set
Render ==
    /\ player.loaded
    /\ ~view.rendered
    /\ view' = Rendered(player)
    /\ player' = AfterSeasonStats(player)
    /\ UNCHANGED <<connectVars, dashboardVars, restVars>>

\* a later render of the page, as a change of the tab brings one (line 496)
Rerender ==
    /\ player.loaded
    /\ view.rendered
    /\ view' = Rendered(player)
    /\ player' = AfterSeasonStats(player)
    /\ UNCHANGED <<connectVars, dashboardVars, restVars>>

PlayerNext ==
    \/ Render
    \/ Rerender

PlayerSpec == PlayerInit /\ [][PlayerNext]_vars

(***************************************************************************)
(* The dashboard page (DashboardPage) over a stored league.                *)
(***************************************************************************)
\* teams a stored standings list holds at most, but for the long one
MaxTeams == 3

\* players a stored roster holds at most, but for the full one
MaxRoster == 4

\* JSON.parse of the stored text: the object the text was made from
JSONParse(text) == text.v

\* a stable sort, as Array.prototype.sort is, of the elements by their
\* keys: an element comes after those of a lesser key and after the earlier
\* ones of its own key
SortBy(q, keys) ==
    LET rank(i) ==
            1 + Cardinality({j \in 1..Len(q) :
                                \/ keys[j] < keys[i]
                                \/ keys[j] = keys[i] /\ j < i})
    IN  [r \in 1..Len(q) |-> q[CHOOSE i \in 1..Len(q) : rank(i) = r]]

\* the first n elements: slice(0, n)
SliceTo(q, n) == SubSeq(q, 1, IF Len(q) < n THEN Len(q) ELSE n)

\* the teams the standings card shows at most (line 291)
StandingsLimit == 10

standingOf(team) == team.standing

\* the teams shown, were the list not sorted
StandingsShownUnsorted(standings) == SliceTo(standings, StandingsLimit)

\* lines 289-291: [...standings].sort(...).slice(0, 10)
StandingsShown(standings) ==
    SliceTo(SortBy(standings,
                   [i \in 1..Len(standings) |-> standingOf(standings[i])]),
            StandingsLimit)

\* line 345
slotOrder ==
    ("QB" :> 1) @@ ("RB" :> 2) @@ ("WR" :> 3) @@ ("TE" :> 4)
    @@ ("RB/WR/TE" :> 5) @@ ("D/ST" :> 6) @@ ("K" :> 7) @@ ("BE" :> 8)
    @@ ("IR" :> 9)

\* the priority, were a slot the table lacks put first
SlotPriorityUnknownFirst(p) ==
    IF "lineupSlot" \in DOMAIN p /\ p.lineupSlot \in DOMAIN slotOrder
    THEN slotOrder[p.lineupSlot]
    ELSE 0

\* line 346: slotOrder[a.lineupSlot] || 10
SlotPriority(p) ==
    IF "lineupSlot" \in DOMAIN p /\ p.lineupSlot \in DOMAIN slotOrder
    THEN slotOrder[p.lineupSlot]
    ELSE 10

\* lines 343-347: [...selectedRoster].sort(...)
RosterShown(selectedRoster) ==
    SortBy(selectedRoster,
           [i \in 1..Len(selectedRoster) |-> SlotPriority(selectedRoster[i])])

\* the i-th team of a stored list
Team(i, name, standing) ==
    [team_id |-> i, team_name |-> name, standing |-> standing]

TeamNames == <<"Team A", "Team B", "Team C", "Team D", "Team E">>

StandingValues == {0, 1, 2, 3}

\* a league of 11 teams stored in descending order, two of them tied
LongStandings ==
    [i \in 1..11 |-> Team(i, "Team A", IF i = 1 THEN 10 ELSE 12 - i)]

\* the stored standings lists
StandingsInputs ==
    {[i \in 1..n |-> Team(i, TeamNames[i], c[i])] :
        n \in 0..MaxTeams, c \in [1..MaxTeams -> StandingValues]}
    \cup {LongStandings}

\* the i-th player of a stored roster, in this slot or, for "", without a
\* lineupSlot
RosterPlayer(i, slot) ==
    IF slot = "" THEN [playerId |-> i]
    ELSE [playerId |-> i, lineupSlot |-> slot]

\* slots of the table, a slot it lacks and no slot
SlotInputs == {"QB", "RB", "RB/WR/TE", "BE", "IR", "UTIL", ""}

\* every slot of the table in descending priority, after an unknown one
FullRoster ==
    LET slots == <<"UTIL", "IR", "BE", "K", "D/ST", "RB/WR/TE", "TE", "WR",
                   "RB", "QB">>
    IN  [i \in 1..Len(slots) |-> RosterPlayer(i, slots[i])]

\* the stored rosters of a team
RosterInputs ==
    {[i \in 1..n |-> RosterPlayer(i, c[i])] :
        n \in 0..MaxRoster, c \in [1..MaxRoster -> SlotInputs]}
    \cup {FullRoster}

\* the stored text of a league with these standings and this roster for
\* its first team
StoredLeague(standings, roster) ==
    JSONStringify(
        ("leagueName" :> Str(MyLeague)) @@ ("leagueId" :> Str(<<"1">>))
        @@ ("standings" :> Arr(standings))
        @@ ("teams" :> Arr(<<Team(1, "Team A", 1), Team(2, "Team B", 2)>>))
        @@ ("rosters" :>
              Obj(("Team A" :> Arr(roster))
                  @@ ("Team B" :> Arr(<<RosterPlayer(1, "BE"),
                                        RosterPlayer(2, "QB")>>)))))

\* what localStorage may hold when the dashboard is opened
StoredLeagues ==
    {StoredLeague(st, <<RosterPlayer(1, "QB")>>) : st \in StandingsInputs}
    \cup {StoredLeague(<<Team(1, "Team A", 1)>>, r) : r \in RosterInputs}
    \cup {Null}

\* lines 151-153
Mounted == [mounted |-> TRUE, leagueData |-> Null, isLoading |-> TRUE,
            selectedTeamName |-> ""]

\* lines 184-194 and 200-347: what a render of this state shows
Board(d) ==
    IF d.isLoading THEN [shown |-> TRUE, loading |-> TRUE]
    ELSE LET standings ==
                 IF d.leagueData # Null
                    /\ "standings" \in DOMAIN d.leagueData
                 THEN d.leagueData.standings.v ELSE <<>>
             rosters ==
                 IF d.leagueData # Null /\ "rosters" \in DOMAIN d.leagueData
                 THEN d.leagueData.rosters.v ELSE <<>>
             selectedRoster ==
                 IF d.selectedTeamName \in DOMAIN rosters
                 THEN rosters[d.selectedTeamName].v ELSE <<>>
         IN  [shown |-> TRUE, loading |-> FALSE,
              standings |-> StandingsShown(standings),
              roster |-> RosterShown(selectedRoster)]

\* lines 166-172: the team selected when the stored league is loaded
FirstTeamName(parsed) ==
    IF "teams" \in DOMAIN parsed /\ Len(parsed.teams.v) > 0
    THEN parsed.teams.v[1].team_name
    ELSE IF "rosters" \in DOMAIN parsed /\ DOMAIN parsed.rosters.v # {}
         THEN SetToSeq(DOMAIN parsed.rosters.v)[1]
         ELSE ""

\* lines 161-179: the effect run on mount, and the render it brings
LoadLeagueData ==
    /\ dashboard.mounted
    /\ dashboard.isLoading
    /\ dashboard' =
         IF leagueData # Null
         THEN [dashboard EXCEPT
                 !.leagueData = JSONParse(leagueData),
                 !.selectedTeamName = FirstTeamName(JSONParse(leagueData)),
                 !.isLoading = FALSE]
         ELSE [dashboard EXCEPT !.isLoading = FALSE]
    /\ board' = Board(dashboard')
    /\ UNCHANGED <<connectVars, playerVars, restVars>>

\* line 248: a team chosen in the selector, and the render it brings
SelectTeam(name) ==
    /\ dashboard.mounted
    /\ ~dashboard.isLoading
    /\ dashboard.leagueData # Null
    /\ name \in DOMAIN dashboard.leagueData.rosters.v
    /\ dashboard' = [dashboard EXCEPT !.selectedTeamName = name]
    /\ board' = Board(dashboard')
    /\ UNCHANGED <<connectVars, playerVars, restVars>>

DashboardInit ==
    /\ FormInit
    /\ leagueData \in StoredLeagues
    /\ player = NoPlayer
    /\ view = NoView
    /\ dashboard = Mounted
    /\ board = Board(Mounted)
    /\ RestInit

DashboardNext ==
    \/ LoadLeagueData
    \/ \E name \in Range(TeamNames) : SelectTeam(name)

DashboardSpec == DashboardInit /\ [][DashboardNext]_vars

(***************************************************************************)
(* The player page and its load effect (page.tsx, lines 207-256).          *)
(***************************************************************************)
\* an object parsed from a text, with its keys in the order of the text
ObjInOrder(keys, o) == [t |-> "object", v |-> o, keys |-> keys]

\* Object.entries of an object or an array
ObjectEntries(x) ==
    IF x.t = "array" THEN [i \in 1..Len(x.v) |-> <<NumberToString(i - 1), x.v[i]>>]
    ELSE [i \in 1..Len(x.keys) |-> <<x.keys[i], x.v[x.keys[i]]>>]

\* what the try block of the effect comes to: a player and the name of the
\* team, nothing found, or an exception, which the catch block logs
NotFound == [found |-> FALSE, threw |-> FALSE]
Thrown == [found |-> FALSE, threw |-> TRUE]
Found(p, team) == [found |-> TRUE, threw |-> FALSE, player |-> p, team |-> team]

\* the test of line 223 with the route id compared as a number
IsRequestedByNumber(p, playerId) == p.playerId = Number(playerId)

\* line 223: p.playerId.toString() === playerId
IsRequested(p, playerId) == NumberToString(p.playerId) = playerId

\* whether a parsed value is an array, one that has find
IsArray(x) == "t" \in DOMAIN x /\ x.t = "array"

\* lines 222-230: the loop over the rosters
RECURSIVE SearchRosters(_, _)
SearchRosters(entries, playerId) ==
    IF entries = <<>> THEN NotFound
    ELSE LET team == entries[1][1]
             roster == entries[1][2]
         IN  IF ~IsArray(roster) THEN Thrown
             ELSE LET hits == {i \in 1..Len(roster.v) :
                                  IsRequested(roster.v[i], playerId)}
                  IN  IF hits # {}
                      THEN Found(roster.v[CHOOSE i \in hits :
                                             \A j \in hits : i <= j], team)
                      ELSE SearchRosters(Tail(entries), playerId)

\* lines 218-231: the try block over what localStorage holds
LoadOutcome(stored, playerId) ==
    IF stored = Null THEN NotFound
    ELSE LET data == JSONParse(stored)
         IN  IF data = Unparsable \/ data = Null THEN Thrown
             ELSE LET rosters == Get(data, "rosters")
                  IN  IF rosters.t \notin {"object", "array"} THEN Thrown
                      ELSE SearchRosters(ObjectEntries(rosters), playerId)

\* lines 209-212: the state of a page opened for this id
MountedPage(playerId) ==
    [mounted |-> TRUE, playerId |-> playerId, player |-> Null, teamName |-> "",
     isLoading |-> TRUE, effect |-> "pending"]

\* lines 238-256 and 334: what the page shows in this state
PageShown(pg) ==
    IF pg.isLoading THEN [screen |-> "Loading player data..."]
    ELSE IF pg.player = Null
    THEN [screen |-> "Player Not Found", playerId |-> pg.playerId]
    ELSE [screen |-> "player", player |-> pg.player, teamName |-> pg.teamName]

\* lines 216-236: the effect runs
RunLoadEffect ==
    /\ playerPage.mounted
    /\ playerPage.effect = "pending"
    /\ LET outcome == LoadOutcome(leagueData, playerPage.playerId)
       IN  playerPage' =
               [playerPage EXCEPT
                   !.player = IF outcome.found THEN outcome.player ELSE @,
                   !.teamName = IF outcome.found THEN outcome.team ELSE @,
                   !.isLoading = FALSE,
                   !.effect = "done"]
    /\ UNCHANGED <<connectVars, playerVars, dashboardVars, espnConnect,
                   pipeline>>

\* the playerId of the route changes under the mounted page (line 208, and
\* the dependency of line 236)
ChangePlayerId(playerId) ==
    /\ playerPage.mounted
    /\ playerPage.effect = "done"
    /\ playerId # playerPage.playerId
    /\ playerPage' = [playerPage EXCEPT !.playerId = playerId,
                                        !.effect = "pending"]
    /\ UNCHANGED <<connectVars, playerVars, dashboardVars, espnConnect,
                   pipeline>>

\* the ids a route may carry
RouteIds == {<<"7">>, <<"8">>, <<"9">>, <<"0", "7">>}

RosterEntry(id, name) == [playerId |-> id, name |-> name]

\* stored rosters: player 7 on two teams, after player 8 on the first; one
\* team; no team; a rosters value that is an array of players
StoredRosters ==
    {ObjInOrder(<<"Team A", "Team B">>,
                ("Team A" :> Arr(<<RosterEntry(8, "a"), RosterEntry(7, "a")>>))
                @@ ("Team B" :> Arr(<<RosterEntry(7, "b")>>))),
     ObjInOrder(<<"Team B", "Team A">>,
                ("Team A" :> Arr(<<RosterEntry(8, "a"), RosterEntry(7, "a")>>))
                @@ ("Team B" :> Arr(<<RosterEntry(7, "b")>>))),
     ObjInOrder(<<"Team A", "Team B">>,
                ("Team A" :> Arr(<<>>))
                @@ ("Team B" :> Arr(<<RosterEntry(9, "b"), RosterEntry(9, "c")>>))),
     ObjInOrder(<<"Team A">>, "Team A" :> Arr(<<RosterEntry(8, "a")>>)),
     ObjInOrder(<<>>, <<>>),
     Arr(<<RosterEntry(7, "a")>>),
     Null}

\* what localStorage may hold when the player page is opened
StoredForLoad ==
    {Null,
     [t |-> "text", v |-> Unparsable],
     [t |-> "text", v |-> Null],
     JSONStringify(("leagueName" :> Str(MyLeague)) @@ ("leagueId" :> Str(<<"1">>))
                   @@ ("rosters" :> Undefined))}
    \cup {JSONStringify(("leagueName" :> Str(MyLeague))
                        @@ ("leagueId" :> Str(<<"1">>))
                        @@ ("rosters" :> r)) : r \in StoredRosters}

LoadInit ==
    /\ FormInit
    /\ leagueData \in StoredForLoad
    /\ player = NoPlayer
    /\ view = NoView
    /\ dashboard = NoDashboard
    /\ board = NoBoard
    /\ playerPage \in {MountedPage(id) : id \in RouteIds}
    /\ espnConnect = NoEspnConnect
    /\ pipeline = NoPipeline

LoadNext ==
    \/ RunLoadEffect
    \/ \E id \in RouteIds : ChangePlayerId(id)

\* an effect of a committed render runs
LoadSpec == LoadInit /\ [][LoadNext]_vars /\ WF_vars(RunLoadEffect)

(***************************************************************************)
(* The ESPN-fetch connect form (components/league/league-connect.tsx).     *)
(* The fields of espnConnect are the useState cells of the component, the  *)
(* running invocation of each handler, whether the effect on metadataJson  *)
(* has yet to run, and the parse-content requests sent so far.             *)
(***************************************************************************)
\* lines 33-43
buildEspnLeagueUrl(leagueId) ==
    [league |-> leagueId,
     view |-> <<"mMatchupScore", "mTeam", "mSettings", "mRoster",
                "mTransactions">>]

\* a message, as the parts of its text
Unauthorized == "not authorized to view this League"
Message(parts) == [t |-> "string", v |-> parts]

\* m.includes(text) of a message
Includes(m, text) == \E i \in 1..Len(m.v) : m.v[i] = text

\* typeof m === "string"
IsString(m) == "t" \in DOMAIN m /\ m.t = "string"

\* lines 45-61
isPrivateLeaguePayload(payload) ==
    IF payload.t # "object" THEN FALSE
    ELSE LET p == payload.v
             messages == IF IsArray(Get(p, "messages"))
                         THEN p["messages"].v ELSE <<>>
             hasUnauthorizedMessage ==
                 \E i \in 1..Len(messages) :
                     IsString(messages[i]) /\ Includes(messages[i], Unauthorized)
             details == IF IsArray(Get(p, "details"))
                        THEN p["details"].v ELSE <<>>
             hasAuthType ==
                 \E i \in 1..Len(details) :
                     Get(details[i].v, "type") = Str("AUTH_LEAGUE_NOT_VISIBLE")
         IN  hasUnauthorizedMessage \/ hasAuthType

\* bodies ESPN answers with: the data of a league, its two ways of saying
\* that the league is private, another error, and a body that is no JSON
LeaguePayload == Obj("teams" :> Arr(<<>>))
UnauthorizedPayload ==
    Obj("messages" :> Arr(<<Message(<<"You are ", Unauthorized, ".">>)>>))
NotVisiblePayload ==
    Obj(("messages" :> Arr(<<Message(<<"No access">>)>>))
        @@ ("details" :> Arr(<<Obj("type" :> Str("AUTH_LEAGUE_NOT_VISIBLE"))>>)))
NotFoundPayload ==
    Obj(("messages" :> Arr(<<Message(<<"League not found">>)>>))
        @@ ("details" :> Arr(<<Obj("type" :> Str("LEAGUE_NOT_FOUND"))>>)))

EspnPayloads ==
    {LeaguePayload, UnauthorizedPayload, NotVisiblePayload, NotFoundPayload,
     Unparsable}

\* what fetch(espnUrl) resolves with
EspnResponses ==
    {[ok |-> TRUE, status |-> 200, payload |-> b] : b \in EspnPayloads}
    \cup {[ok |-> FALSE, status |-> 401, payload |-> b] : b \in EspnPayloads}

\* what the parse-content request resolves with
ParseResponses ==
    {[ok |-> TRUE, text |-> ""]}
    \cup {[ok |-> FALSE, text |-> x] : x \in ErrorTexts}

\* what the user can type or paste
EspnPublicIdInputs == {<<"1", "a">>}
EspnPrivateIdInputs == {<<"2">>, <<"x">>}
MetadataInputs == {<<" ">>, <<"{">>, <<" ", "{", "}">>}

\* JSON.parse of a pasted text: of the texts above, "{}" between white
\* space is the one that parses
ParseMetadata(text) ==
    IF Trim(text) = <<"{", "}">> THEN Obj(<<>>) ELSE Unparsable

\* the metadata error messages (lines 92, 179)
InvalidJsonYet == Str("That doesn't look like valid JSON yet.")
PasteTheJson ==
    Str("Paste the JSON you received from ESPN so we can parse it.")

EspnIdle == [pc |-> "idle", id |-> <<>>, response |-> Undefined]

\* lines 64-78: the state after the first render
EspnMounted ==
    [mounted |-> TRUE, mode |-> "public", publicLeagueId |-> <<>>,
     privateLeagueId |-> <<>>, privateLink |-> Null, metadataJson |-> <<>>,
     metadataError |-> Null, effect |-> "done",
     publicStatus |-> "idle", publicMessage |-> Null,
     privateStatus |-> "idle", privateMessage |-> Null,
     publicCall |-> EspnIdle, privateCall |-> EspnIdle, sent |-> {}]

\* every step below changes espnConnect only
EspnFrame ==
    UNCHANGED <<connectVars, playerVars, dashboardVars, playerPage, pipeline>>

\* lines 227, 235
EspnSetMode(m) ==
    /\ espnConnect.mounted
    /\ espnConnect.mode # m
    /\ espnConnect' = [espnConnect EXCEPT !.mode = m]
    /\ EspnFrame

\* lines 261, 315
EspnTypeId ==
    /\ espnConnect.mounted
    /\ \/ /\ espnConnect.mode = "public"
          /\ \E v \in EspnPublicIdInputs :
                espnConnect' = [espnConnect EXCEPT !.publicLeagueId = v]
       \/ /\ espnConnect.mode = "private"
          /\ \E v \in EspnPrivateIdInputs :
                espnConnect' = [espnConnect EXCEPT !.privateLeagueId = v]
    /\ EspnFrame

\* line 367: a change of the text leaves the effect of lines 83-94 to run
EspnTypeMetadata ==
    /\ espnConnect.mounted
    /\ espnConnect.mode = "private"
    /\ \E v \in MetadataInputs \cup {<<>>} :
          /\ v # espnConnect.metadataJson
          /\ espnConnect' = [espnConnect EXCEPT !.metadataJson = v,
                                                !.effect = "pending"]
    /\ EspnFrame

\* lines 83-94
MetadataEffect ==
    /\ espnConnect.mounted
    /\ espnConnect.effect = "pending"
    /\ espnConnect' =
          [espnConnect EXCEPT
              !.effect = "done",
              !.metadataError =
                  IF Trim(espnConnect.metadataJson) = <<>> THEN Null
                  ELSE IF ParseMetadata(espnConnect.metadataJson) # Unparsable
                  THEN Null
                  ELSE InvalidJsonYet]
    /\ EspnFrame

\* lines 107-111
onGenerateLink ==
    /\ espnConnect.mounted
    /\ espnConnect.mode = "private"
    /\ LET id == sanitizeLeagueId(espnConnect.privateLeagueId)
       IN  /\ id # <<>>
           /\ espnConnect' =
                 [espnConnect EXCEPT !.privateLink = buildEspnLeagueUrl(id)]
    /\ EspnFrame

\* the body of a parse-content request (lines 153-157, 193-197)
ParseRequest(id, source, content) ==
    [leagueId |-> id, source |-> source, content |-> content]

\* lines 163-167, 203-207: the catch blocks
EspnPublicCatch(message) ==
    espnConnect' = [espnConnect EXCEPT !.publicStatus = "error",
                                       !.publicMessage = Str(message),
                                       !.publicCall.pc = "idle"]

EspnPrivateCatch(message) ==
    espnConnect' = [espnConnect EXCEPT !.privateStatus = "error",
                                       !.privateMessage = Str(message),
                                       !.privateCall.pc = "idle"]

\* lines 113-126: up to the await of fetch(espnUrl)
EspnSubmitPublic ==
    /\ espnConnect.mounted
    /\ espnConnect.mode = "public"
    /\ espnConnect.publicStatus # "loading"
    /\ LET id == sanitizeLeagueId(espnConnect.publicLeagueId)
       IN  /\ id # <<>>
           /\ espnConnect' =
                 [espnConnect EXCEPT
                     !.publicStatus = "loading",
                     !.publicMessage = Null,
                     !.publicCall = [pc |-> "espn", id |-> id,
                                     response |-> Undefined]]
    /\ EspnFrame

\* line 126: the fetch of the ESPN url settles
EspnFetchSettles ==
    /\ espnConnect.mounted
    /\ espnConnect.publicCall.pc = "espn"
    /\ \/ EspnPublicCatch("Failed to fetch")
       \/ \E r \in EspnResponses :
             espnConnect' = [espnConnect EXCEPT !.publicCall.pc = "payload",
                                                !.publicCall.response = r]
    /\ EspnFrame

\* what the handler does with a payload read as JSON: with the status
\* looked at before the payload
PayloadBranchStatusFirst(response) ==
    IF ~response.ok THEN "failed"
    ELSE IF isPrivateLeaguePayload(response.payload) THEN "private"
    ELSE "parse"

\* lines 135-148
PayloadBranch(response) ==
    IF isPrivateLeaguePayload(response.payload) THEN "private"
    ELSE IF ~response.ok THEN "failed"
    ELSE "parse"

\* lines 128-158: the body is read (json(), and text() after a json() that
\* failed, which rejects because the body has been read), and the handler
\* runs on to the await of the parse-content request
EspnPayloadSettles ==
    /\ espnConnect.mounted
    /\ espnConnect.publicCall.pc = "payload"
    /\ LET call == espnConnect.publicCall
           response == call.response
           branch == PayloadBranch(response)
       IN  IF response.payload = Unparsable
           THEN EspnPublicCatch("body stream already read")
           ELSE IF branch = "private"
           THEN espnConnect' =
                    [espnConnect EXCEPT
                        !.publicStatus = "private",
                        !.publicMessage =
                            Str("This league appears to be private. Switch to the Private flow below."),
                        !.mode = "private",
                        !.privateLeagueId = call.id,
                        !.privateLink = buildEspnLeagueUrl(call.id),
                        !.publicCall.pc = "idle"]
           ELSE IF branch = "failed"
           THEN EspnPublicCatch("ESPN request failed")
           ELSE espnConnect' =
                    [espnConnect EXCEPT
                        !.publicCall.pc = "parse",
                        !.sent = @ \cup {ParseRequest(call.id, "public",
                                                      response.payload)}]
    /\ EspnFrame

\* lines 150-162: the parse-content request of the public flow settles,
\* and text() of a failed response after it
EspnPublicParseSettles ==
    /\ espnConnect.mounted
    /\ espnConnect.publicCall.pc = "parse"
    /\ \/ EspnPublicCatch("Failed to fetch")
       \/ \E r \in ParseResponses :
             IF r.ok
             THEN espnConnect' =
                      [espnConnect EXCEPT
                          !.publicStatus = "success",
                          !.publicMessage =
                              Str("Fetched league data and sent it to the parser."),
                          !.publicCall.pc = "idle"]
             ELSE EspnPublicCatch(IF r.text # "" THEN r.text
                                  ELSE "parse-content request failed")
    /\ EspnFrame

\* lines 173-198: up to the await of the parse-content request
EspnSubmitPrivate ==
    /\ espnConnect.mounted
    /\ espnConnect.mode = "private"
    /\ espnConnect.privateStatus # "loading"
    /\ LET id == sanitizeLeagueId(espnConnect.privateLeagueId)
           linked == IF espnConnect.privateLink = Null
                     THEN [espnConnect EXCEPT
                              !.privateLink = buildEspnLeagueUrl(id)]
                     ELSE espnConnect
           parsed == ParseMetadata(espnConnect.metadataJson)
       IN  /\ id # <<>>
           /\ espnConnect' =
                 IF Trim(espnConnect.metadataJson) = <<>>
                 THEN [linked EXCEPT !.metadataError = PasteTheJson]
                 ELSE IF espnConnect.metadataError # Null THEN linked
                 ELSE IF parsed = Unparsable
                 THEN [linked EXCEPT
                          !.privateStatus = "error",
                          !.privateMessage = Str("Unexpected token in JSON")]
                 ELSE [linked EXCEPT
                          !.privateStatus = "loading",
                          !.privateMessage = Null,
                          !.privateCall = [pc |-> "parse", id |-> id,
                                           response |-> Undefined],
                          !.sent = @ \cup {ParseRequest(id, "private", parsed)}]
    /\ EspnFrame

\* lines 190-202
EspnPrivateParseSettles ==
    /\ espnConnect.mounted
    /\ espnConnect.privateCall.pc = "parse"
    /\ \/ EspnPrivateCatch("Failed to fetch")
       \/ \E r \in ParseResponses :
             IF r.ok
             THEN espnConnect' =
                      [espnConnect EXCEPT
                          !.privateStatus = "success",
                          !.privateMessage = Str("Sent your JSON to the parser."),
                          !.privateCall.pc = "idle"]
             ELSE EspnPrivateCatch(IF r.text # "" THEN r.text
                                   ELSE "parse-content request failed")
    /\ EspnFrame

EspnInit ==
    /\ ConnectInit
    /\ player = NoPlayer
    /\ view = NoView
    /\ dashboard = NoDashboard
    /\ board = NoBoard
    /\ playerPage = NoPage
    /\ espnConnect = EspnMounted
    /\ pipeline = NoPipeline

EspnNext ==
    \/ \E m \in {"public", "private"} : EspnSetMode(m)
    \/ EspnTypeId
    \/ EspnTypeMetadata
    \/ MetadataEffect
    \/ onGenerateLink
    \/ EspnSubmitPublic
    \/ EspnFetchSettles
    \/ EspnPayloadSettles
    \/ EspnPublicParseSettles
    \/ EspnSubmitPrivate
    \/ EspnPrivateParseSettles

EspnSpec == EspnInit /\ [][EspnNext]_vars

(***************************************************************************)
(* A connect response, a stored roster and a stored player taken through   *)
(* the pages more than once: the success branch of the connect handler     *)
(* (part_000, lines 76-85), the roster list of the dashboard (part_001,    *)
(* lines 340-347) and the render of the player page (page.tsx, lines       *)
(* 261-316), over the same objects in memory.                              *)
(***************************************************************************)
\* times the input is taken through
MaxRuns == 2

\* the invocation of onSubmitPublic whose json() has resolved
PipelineCall(typedId, typedName, body) ==
    [pc |-> "json", id |-> sanitizeLeagueId(typedId), name |-> Trim(typedName),
     seq |-> 1, typed |-> <<typedName, typedId>>,
     request |-> PublicRequest(sanitizeLeagueId(typedId), Trim(typedName)),
     response |-> [ok |-> TRUE, text |-> "", body |-> body]]

\* the derived values of a render (lines 261-316)
PipelineMetrics(p) ==
    [gamesPlayed |-> gamesPlayed(p),
     weeklyPoints |-> weeklyPoints(p),
     maxWeek |-> maxWeek(p),
     minWeek |-> minWeek(p),
     performanceVsProjection |-> performanceVsProjection(p),
     isOverperforming |-> isOverperforming(p),
     pointsStdDev |-> pointsStdDev(p),
     consistencyScore |-> consistencyScore(p),
     weeksBeatProjection |-> weeksBeatProjection(p),
     seasonBreakdown |-> getSeasonStats(p)]

\* the players, rosters and responses taken through
PipelinePlayers ==
    {StoredPlayer(Obj(m), 2, <<120, 100>>, "QB", totals,
                  <<FromInt(50), FromInt(20)>>) :
        m \in StatsMapsOver({<<"2">>, <<"1", "7">>}),
        totals \in SeasonTotalsValues}

PipelineRosters ==
    {FullRoster,
     <<RosterPlayer(1, "BE"), RosterPlayer(2, ""), RosterPlayer(3, "QB"),
       RosterPlayer(4, "BE")>>}

PipelineBodies == {b \in OkBodies : b.t = "object"}

\* the input, nothing stored, nothing rendered yet
PipelineStart(body, roster, p) ==
    [started |-> TRUE, call |-> PipelineCall(<<"1", "a">>, <<" ", "L">>, body),
     roster |-> roster, player |-> p, store |-> Null, stage |-> "connect",
     run |-> [stage |-> "connect"], results |-> <<>>]

PipelineFrame ==
    UNCHANGED <<connectVars, playerVars, dashboardVars, playerPage,
                espnConnect>>

\* part_000, lines 76-85: the snapshot is written
PipelineConnect ==
    /\ pipeline.started
    /\ pipeline.stage = "connect"
    /\ Len(pipeline.results) < MaxRuns
    /\ pipeline' =
          [pipeline EXCEPT
              !.store = JSONStringify(Snapshot(pipeline.call)),
              !.stage = "dashboard",
              !.run = [snapshot |-> JSONStringify(Snapshot(pipeline.call))]]
    /\ PipelineFrame

\* part_001, lines 340-347: the roster is listed
PipelineDashboard ==
    /\ pipeline.started
    /\ pipeline.stage = "dashboard"
    /\ pipeline' =
          [pipeline EXCEPT
              !.stage = "player",
              !.run = [snapshot |-> pipeline.run.snapshot,
                       roster |-> RosterShown(pipeline.roster)]]
    /\ PipelineFrame

\* page.tsx, lines 261-316: the player page renders over the player object
\* it holds, which getSeasonStats may have written to before
PipelineRender ==
    /\ pipeline.started
    /\ pipeline.stage = "player"
    /\ pipeline' =
          [pipeline EXCEPT
              !.stage = "connect",
              !.player = AfterSeasonStats(pipeline.player),
              !.run = [stage |-> "connect"],
              !.results =
                  Append(@, [snapshot |-> pipeline.run.snapshot,
                             roster |-> pipeline.run.roster,
                             timeline |-> weeklyStats(pipeline.player),
                             metrics |-> PipelineMetrics(pipeline.player)])]
    /\ PipelineFrame

PipelineInit ==
    /\ ConnectInit
    /\ player = NoPlayer
    /\ view = NoView
    /\ dashboard = NoDashboard
    /\ board = NoBoard
    /\ playerPage = NoPage
    /\ espnConnect = NoEspnConnect
    /\ pipeline \in {PipelineStart(b, r, p) :
                        b \in PipelineBodies, r \in PipelineRosters,
                        p \in PipelinePlayers}

PipelineNext ==
    \/ PipelineConnect
    \/ PipelineDashboard
    \/ PipelineRender

PipelineSpec == PipelineInit /\ [][PipelineNext]_vars

(***************************************************************************)
(* Properties of the player page (PlayerSpec).                             *)
(***************************************************************************)
\* the stored stats mapping of the player, {} when it is missing
SourceStats == IF player.stats.t = "object" THEN player.stats.v ELSE <<>>

\* the stored keys that denote week i
KeysOfWeek(i) == {k \in DOMAIN SourceStats : Number(k) = i}

\* C1: whatever the stored stats mapping holds (nothing, only week "0",
\* weeks above 17), the rendered timeline has exactly 17 entries and its
\* i-th entry is week i: weeks 1..17 ascending, none twice.
C1_TimelineHasWeeks1To17 ==
    view.rendered =>
        /\ Len(view.weeklyStats) = 17
        /\ \A i \in 1..Len(view.weeklyStats) :
               Number(view.weeklyStats[i][1]) = i

\* a sparse mapping was rendered: week "0" and a week above 17, no week 1
C1_Witness ==
    /\ view.rendered
    /\ <<"0">> \in DOMAIN SourceStats
    /\ <<"1", "8">> \in DOMAIN SourceStats
    /\ <<"1">> \notin DOMAIN SourceStats

\* C2: for each week w of 1..17 the timeline entry of w is the stored line
\* of w when there is one, and otherwise a line with points 0, projected
\* points 0 and empty breakdowns; so nothing stored under a week outside
\* 1..17 (week "0", week "18") appears in the timeline.
C2_TimelineEntries ==
    view.rendered =>
        \A i \in 1..17 :
            LET line == view.weeklyStats[i][2]
            IN  IF KeysOfWeek(i) # {}
                THEN \A k \in KeysOfWeek(i) : line = SourceStats[k]
                ELSE /\ line.points = 0
                     /\ line.projected_points = 0
                     /\ line.breakdown = EmptyBreakdown
                     /\ line.projected_breakdown = EmptyBreakdown

\* a timeline rendered from a week of data, a missing week and a scoring
\* week "0"
C2_Witness ==
    /\ view.rendered
    /\ <<"2">> \in DOMAIN SourceStats
    /\ SourceStats[<<"2">>].points > 0
    /\ <<"1">> \notin DOMAIN SourceStats
    /\ <<"0">> \in DOMAIN SourceStats
    /\ SourceStats[<<"0">>].points > 0

\* C6: the consistency score lies in [0, 100] for every stored player.
C6_ScoreInRange ==
    view.rendered =>
        /\ RLeq(FromInt(0), view.consistencyScore)
        /\ RLeq(view.consistencyScore, FromInt(100))

\* the deviation exceeds a positive average: the unclamped value is negative
C6_Witness ==
    /\ view.rendered
    /\ player.avg_points > 0
    /\ RLt(FromInt(player.avg_points), view.pointsStdDev)

\* C7: when the player has stored weeks and every one of them has points 0,
\* the consistency score is 0, whatever avg_points is.
C7_AllZeroScoresZero ==
    (/\ view.rendered
     /\ DOMAIN SourceStats # {}
     /\ \A k \in DOMAIN SourceStats : SourceStats[k].points = 0)
        => view.consistencyScore = FromInt(0)

\* C8: when every stored weekly value is 0 or one same v > 0 and the stored
\* average is positive, the consistency score is 100.
C8_UniformScoresHundred ==
    (/\ view.rendered
     /\ player.avg_points > 0
     /\ \E k \in DOMAIN SourceStats : SourceStats[k].points > 0
     /\ \E v \in 1..4 : \A k \in DOMAIN SourceStats :
            SourceStats[k].points \in {0, v})
        => view.consistencyScore = FromInt(100)

\* the population standard deviation: around the mean of the values
\* themselves, over their count; 0 for fewer than two values
PopulationStdDev(vals) ==
    LET n == Len(vals)
        mean == Rat(SumSeq(vals), n)
        sq(x) == RMul(RSub(FromInt(x), mean), RSub(FromInt(x), mean))
        sum[i \in 0..n] == IF i = 0 THEN FromInt(0) ELSE RAdd(sum[i - 1], sq(vals[i]))
    IN  IF n < 2 THEN FromInt(0) ELSE RSqrt(RDiv(sum[n], FromInt(n)))

\* C9: the sigma of the consistency score is the population standard
\* deviation of the weekly values the score is computed over: deviations
\* around the mean of those same values, divided by their count, and 0 for
\* fewer than two values.
C9_SigmaIsPopulationStdDev ==
    view.rendered => view.pointsStdDev = PopulationStdDev(view.weeklyPoints)

\* C10: the percentage versus projection is (total / projected - 1) * 100
\* for a positive projected total and 0 otherwise; (100, 0) gives 0,
\* (120, 100) gives 20, (80, 100) gives -20; it is positive exactly when the
\* total exceeds a positive projected total.
C10_VsProjection ==
    view.rendered =>
        LET total == player.total_points
            projected == player.projected_total_points
            pct == view.performanceVsProjection
        IN  /\ projected > 0 =>
                   pct = RMul(RSub(Rat(total, projected), FromInt(1)), FromInt(100))
            /\ projected <= 0 => pct = FromInt(0)
            /\ (total = 100 /\ projected = 0) => pct = FromInt(0)
            /\ (total = 120 /\ projected = 100) => pct = FromInt(20)
            /\ (total = 80 /\ projected = 100) => pct = FromInt(-20)
            /\ view.isOverperforming <=> (projected > 0 /\ total > projected)

\* a player above a positive projection was rendered
C10_Witness ==
    /\ view.rendered
    /\ player.total_points = 120
    /\ player.projected_total_points = 100
    /\ view.isOverperforming

(***************************************************************************)
(* Properties of the connect flows (Spec).                                 *)
(***************************************************************************)
\* json() of this call has resolved with an object
GotData(call) == call.pc = "json" /\ call.response.body.t = "object"

\* the data of this call has no rosters mapping
Malformed(call) == ~IsMapping(Get(call.response.body.v, "rosters"))

\* C3: when the data returned for a connect has rosters missing or not a
\* mapping, the connect ends with status "error" and leagueData is not
\* written.
C3_MalformedPayloadRejected ==
    [][/\ (GotData(publicCall) /\ Malformed(publicCall)
             /\ publicCall'.pc = "idle")
          => (publicStatus' = "error" /\ leagueData' = leagueData)
       /\ (GotData(privateCall) /\ Malformed(privateCall)
             /\ privateCall'.pc = "idle")
          => (privateStatus' = "error" /\ leagueData' = leagueData)]_vars

\* this call ends in this step without data: the fetch threw, the response
\* was not OK, or its body could not be parsed
FailedStep(call, callAfter) ==
    /\ callAfter.pc = "idle"
    /\ \/ call.pc \in {"fetch", "text"}
       \/ call.pc = "json" /\ call.response.body = Unparsable

SnapshotKeys == {"leagueName", "leagueId", "standings", "teams", "rosters"}

\* C4: a connect whose request throws, is answered not-OK or with a body
\* that cannot be parsed leaves leagueData as it was and sets status
\* "error"; leagueData is written only when json() of an OK response has
\* resolved, and then with a snapshot of all five fields.
C4_ConnectIsAtomic ==
    [][/\ FailedStep(publicCall, publicCall')
          => (leagueData' = leagueData /\ publicStatus' = "error")
       /\ FailedStep(privateCall, privateCall')
          => (leagueData' = leagueData /\ privateStatus' = "error")
       /\ leagueData' # leagueData
          => /\ \/ (GotData(publicCall) /\ publicCall'.pc = "idle")
                \/ (GotData(privateCall) /\ privateCall'.pc = "idle")
             /\ leagueData'.t = "text"
             /\ DOMAIN leagueData'.v = SnapshotKeys]_vars

\* C5: once a connect has succeeded, leagueData holds the snapshot of the
\* successful connect that was submitted last.
C5_LatestSubmittedWins ==
    lastGood.seq > 0 => leagueData = lastGood.data

(***************************************************************************)
(* Properties of the derived metrics and the season view (PlayerSpec).     *)
(***************************************************************************)
\* the non-zero point values of the stored weeks other than week "0"
NonZeroPoints ==
    {SourceStats[k].points : k \in DOMAIN SourceStats \ {<<"0">>}} \ {0}

\* C11: the floor shown is the least of the non-zero weekly point values of
\* the weeks other than week "0", negative values included, and 0 when
\* there is no non-zero value.
C11_FloorIsLeastNonZero ==
    view.rendered =>
        IF NonZeroPoints = {} THEN view.floor = 0
        ELSE /\ view.floor \in NonZeroPoints
             /\ \A x \in NonZeroPoints : view.floor <= x

\* the stored weeks other than week "0" that beat their projection
WeeksAtOrAboveProjection ==
    {k \in DOMAIN SourceStats \ {<<"0">>} :
        /\ SourceStats[k].points > 0
        /\ SourceStats[k].points >= SourceStats[k].projected_points}

\* C12: the beat-projection count is the number of weeks other than week
\* "0" whose points are above 0 and at least the week's projected points; a
\* week with 0 points is not counted, not even against a projection of 0.
C12_BeatProjectionCount ==
    view.rendered =>
        view.weeksBeatProjection = Cardinality(WeeksAtOrAboveProjection)

\* rendered: a week that meets its projection exactly is counted, a week
\* with 0 points against a projection of 0 and a week "0" are not
C12_Witness ==
    /\ view.rendered
    /\ view.weeksBeatProjection = 1
    /\ \E k \in DOMAIN SourceStats \ {<<"0">>} :
          SourceStats[k].points = 4 /\ SourceStats[k].projected_points = 4
    /\ \E k \in DOMAIN SourceStats \ {<<"0">>} :
          SourceStats[k].points = 0 /\ SourceStats[k].projected_points = 0
    /\ <<"0">> \in DOMAIN SourceStats
    /\ SourceStats[<<"0">>].points > 0

\* the stored player has season totals with a breakdown that is not empty
HasProvidedTotals ==
    /\ player.loaded
    /\ DOMAIN TotalsBreakdownOf(player) # {}

\* C13: when the player has season totals with a non-empty breakdown, a
\* render takes that breakdown as the season stats as it is: the same keys,
\* the same values, no weekly value added, and the stored one stays as it
\* was.
C13_ProvidedTotalsUnchanged ==
    [][(HasProvidedTotals /\ view'.rendered)
          => /\ view'.seasonBreakdown = player.seasonTotals.v.breakdown
             /\ player'.seasonTotals = player.seasonTotals]_vars

\* rendered over provided totals and weeks whose breakdowns hold a key of
\* the totals: the season stats have the provided value, not the sum
C13_Witness ==
    /\ view.rendered
    /\ HasProvidedTotals
    /\ "passingYards" \in DOMAIN player.seasonTotals.v.breakdown
    /\ player.seasonTotals.v.breakdown["passingYards"] = 9
    /\ \E k \in DOMAIN SourceStats \ {<<"0">>} :
          /\ SourceStats[k].points > 0
          /\ "passingYards" \in DOMAIN SourceStats[k].breakdown
    /\ view.seasonBreakdown["passingYards"] = 9

\* the stored weeks other than week "0" with points above 0
ScoringWeeks ==
    {k \in DOMAIN SourceStats \ {<<"0">>} : SourceStats[k].points > 0}

\* the sum of a stat over these weeks
RECURSIVE SumOfStat(_, _)
SumOfStat(stat, weeks) ==
    IF weeks = {} THEN 0
    ELSE LET k == CHOOSE w \in weeks : TRUE
             bd == SourceStats[k].breakdown
         IN  (IF stat \in DOMAIN bd THEN bd[stat] ELSE 0)
             + SumOfStat(stat, weeks \ {k})

\* each stat of the scoring weeks summed over the scoring weeks
ScoringWeeksFold ==
    [stat \in UNION {DOMAIN SourceStats[k].breakdown : k \in ScoringWeeks}
        |-> SumOfStat(stat, ScoringWeeks)]

\* C14: when the season totals are absent or have an empty breakdown, the
\* season stats of a render are the sums of each stat over the weeks with
\* points above 0; a week with 0 points adds nothing, whatever its
\* breakdown holds.
C14_FoldOverScoringWeeks ==
    [][(player.loaded /\ ~HasProvidedTotals /\ view'.rendered)
          => view'.seasonBreakdown = ScoringWeeksFold]_vars

\* C15: a render leaves the stored player as it was: its stats, every
\* weekly breakdown and the breakdown of its season totals hold the keys
\* and values they held before, also when the season totals are present
\* with an empty breakdown.
C15_RenderLeavesPlayer ==
    [][(player.loaded /\ view'.rendered) => player' = player]_vars

\* the keys of a breakdown that the table has and whose row names no
\* positions or names the player's position
ApplicableKeys(bd) ==
    {k \in DOMAIN bd \cap DOMAIN STAT_CONFIG :
        \/ ~STAT_CONFIG[k].hasPositions
        \/ player.position \in STAT_CONFIG[k].positions}

\* the keys a list of shown stats holds
KeysShown(stats) == {stats[i].key : i \in 1..Len(stats)}

\* the season grouping holds, each under the category of its row and with
\* its value, exactly the applicable keys of the season stats
SeasonGroupingExact ==
    /\ UNION {KeysShown(view.statsByCategory[c]) :
                c \in DOMAIN view.statsByCategory}
         = ApplicableKeys(view.seasonBreakdown)
    /\ \A c \in DOMAIN view.statsByCategory :
          \A i \in 1..Len(view.statsByCategory[c]) :
             LET stat == view.statsByCategory[c][i]
             IN  /\ STAT_CONFIG[stat.key].category = c
                 /\ stat.value = view.seasonBreakdown[stat.key]

\* C16: the stats shown for a position are exactly the keys of the
\* breakdown that the table has and that apply to the player's position,
\* keys the table lacks being dropped, in the season grouping and in every
\* week's card.
C16_OnlyApplicableKeys ==
    view.rendered =>
        /\ SeasonGroupingExact
        /\ \A i \in 1..Len(view.weekCards) :
              KeysShown(view.weekCards[i])
                = ApplicableKeys(view.weeklyStats[i][2].breakdown)

\* C16, amended: the season grouping holds exactly the applicable keys; a
\* week's card shows applicable keys only, each once, all of them when they
\* are 12 or fewer and 12 of them otherwise.
C16_ApplicableKeysCardCapped ==
    view.rendered =>
        /\ SeasonGroupingExact
        /\ \A i \in 1..Len(view.weekCards) :
              LET shown == KeysShown(view.weekCards[i])
                  all == ApplicableKeys(view.weeklyStats[i][2].breakdown)
              IN  /\ shown \subseteq all
                  /\ Cardinality(shown) = Len(view.weekCards[i])
                  /\ Len(view.weekCards[i])
                       = IF Cardinality(all) <= 12 THEN Cardinality(all)
                         ELSE 12

\* a quarterback rendered with a week of 14 applicable stats, cut to 12 on
\* its card, and season stats holding a kicking stat and a stat the table
\* lacks, both left out of the grouping
C16_Witness ==
    /\ view.rendered
    /\ player.position = "QB"
    /\ \E i \in 1..Len(view.weekCards) :
          /\ Len(view.weekCards[i]) = 12
          /\ Cardinality(ApplicableKeys(view.weeklyStats[i][2].breakdown)) = 14
    /\ {"madeFieldGoals", "unknownStat", "passingYards"}
          \subseteq DOMAIN view.seasonBreakdown
    /\ DOMAIN view.statsByCategory = {"passing", "misc"}

\* the player with its week "0" entry removed
WithoutWeekZero(p) ==
    IF p.stats.t = "object"
    THEN [p EXCEPT !.stats =
            Obj([k \in DOMAIN p.stats.v \ {<<"0">>} |-> p.stats.v[k]])]
    ELSE p

\* the player with this line as its week "0" entry
WithWeekZero(p, line) ==
    [p EXCEPT !.stats =
        Obj((<<"0">> :> line) @@ StatsOf(WithoutWeekZero(p)))]

\* the players that differ from this one in the week "0" entry at most
WeekZeroVariants(p) ==
    {WithoutWeekZero(p)} \cup {WithWeekZero(p, line) : line \in StatLines}

\* C18: week "0" takes no part in the derived metrics: with the week "0"
\* entry of the player removed, added or replaced by any other line, games
\* played, floor, ceiling, sigma, consistency score, beat-projection count
\* and the season stats come out as rendered.
C18_WeekZeroExcluded ==
    view.rendered =>
        \A q \in WeekZeroVariants(player) :
            /\ view.gamesPlayed = gamesPlayed(q)
            /\ view.floor = FloorShown(q)
            /\ view.maxWeek = maxWeek(q)
            /\ view.pointsStdDev = pointsStdDev(q)
            /\ view.consistencyScore = consistencyScore(q)
            /\ view.weeksBeatProjection = weeksBeatProjection(q)
            /\ view.seasonBreakdown = getSeasonStats(q)

\* rendered over a week "0" that scored, beat its projection and has a
\* breakdown, next to one scoring week: one game played, one week's stats
C18_Witness ==
    /\ view.rendered
    /\ DOMAIN SourceStats = {<<"0">>, <<"2">>}
    /\ SourceStats[<<"0">>].points = 4
    /\ SourceStats[<<"2">>].points = 2
    /\ player.seasonTotals = Null
    /\ view.gamesPlayed = 1
    /\ view.maxWeek = 2
    /\ view.weeksBeatProjection = 1
    /\ DOMAIN view.seasonBreakdown = {"passingYards"}

\* this number lies in [0, 100]
InPercentRange(x) == RLeq(FromInt(0), x) /\ RLeq(x, FromInt(100))

\* C19: whatever percent_owned and percent_started are stored, the
\* percentage shown on the Rostered and Started cards and the width of
\* their bars lie in [0, 100].
C19_PercentClamped ==
    view.rendered =>
        \A card \in {view.ownership.rostered, view.ownership.started} :
            /\ InPercentRange(FromInt(card.value))
            /\ InPercentRange(card.width)

(***************************************************************************)
(* Properties of the dashboard page (DashboardSpec).                       *)
(***************************************************************************)
\* the dashboard shows a loaded league
BoardShown == board.shown /\ ~board.loading /\ dashboard.leagueData # Null

\* the roster of the selected team, as stored
StoredRoster ==
    LET rosters == JSONParse(leagueData).rosters.v
    IN  IF dashboard.selectedTeamName \in DOMAIN rosters
        THEN rosters[dashboard.selectedTeamName].v ELSE <<>>

\* the lineup slots in their fixed priority
SlotsByPriority ==
    <<"QB", "RB", "WR", "TE", "RB/WR/TE", "D/ST", "K", "BE", "IR">>

\* the place of a player's slot in the priority, one past its end for a
\* slot it lacks or no slot
PlaceOf(p) ==
    IF "lineupSlot" \in DOMAIN p /\ p.lineupSlot \in Range(SlotsByPriority)
    THEN CHOOSE i \in 1..Len(SlotsByPriority) :
            SlotsByPriority[i] = p.lineupSlot
    ELSE Len(SlotsByPriority) + 1

\* the slots of a roster, "" for none
SlotsOf(roster) ==
    [i \in 1..Len(roster) |->
        IF "lineupSlot" \in DOMAIN roster[i] THEN roster[i].lineupSlot
        ELSE ""]

\* C17: the roster shown holds the players of the stored roster in
\* non-decreasing slot priority QB, RB, WR, TE, RB/WR/TE, D/ST, K, BE, IR;
\* players with an unknown or missing slot come after all known slots, and
\* players of equal priority keep their stored order; slots
\* [BE, QB, IR, RB] are shown as [QB, RB, BE, IR].
C17_RosterBySlotPriority ==
    BoardShown =>
        /\ Len(board.roster) = Len(StoredRoster)
        /\ Range(board.roster) = Range(StoredRoster)
        /\ \A i, j \in 1..Len(board.roster) :
              i < j =>
                 /\ PlaceOf(board.roster[i]) <= PlaceOf(board.roster[j])
                 /\ PlaceOf(board.roster[i]) = PlaceOf(board.roster[j])
                       => board.roster[i].playerId < board.roster[j].playerId
        /\ SlotsOf(StoredRoster) = <<"BE", "QB", "IR", "RB">>
              => SlotsOf(board.roster) = <<"QB", "RB", "BE", "IR">>

\* shown: a roster stored as [UTIL, QB, no slot, QB], the two quarterbacks
\* first and the two players without a known slot after them, each pair in
\* its stored order
C17_Witness ==
    /\ BoardShown
    /\ SlotsOf(StoredRoster) = <<"UTIL", "QB", "", "QB">>
    /\ [i \in 1..Len(board.roster) |-> board.roster[i].playerId]
          = <<2, 4, 1, 3>>

\* the standings list, as stored
StoredStandings == JSONParse(leagueData).standings.v

\* the list shown is in ascending order of standing, teams of equal
\* standing in their stored order, and the list held by the page is the
\* stored one
StandingsAscendingStable ==
    /\ \A i, j \in 1..Len(board.standings) :
          i < j =>
             /\ board.standings[i].standing <= board.standings[j].standing
             /\ board.standings[i].standing = board.standings[j].standing
                   => board.standings[i].team_id < board.standings[j].team_id
    /\ dashboard.leagueData.standings.v = StoredStandings

\* C20: the standings are shown in ascending order of standing, teams of
\* equal standing in their stored order, the stored list is not reordered,
\* and the standing values of the list are positive integers, no two the
\* same.
C20_StandingsAscendingUnique ==
    BoardShown =>
        /\ StandingsAscendingStable
        /\ \A i \in 1..Len(StoredStandings) :
              /\ StoredStandings[i].standing > 0
              /\ \A j \in 1..Len(StoredStandings) :
                    StoredStandings[i].standing = StoredStandings[j].standing
                       => i = j

\* C20, amended: the standings are shown in ascending order of standing,
\* teams of equal standing in their stored order, and the stored list is
\* not reordered; the teams shown are stored teams with their stored
\* standing, the first 10 of the order at most, whatever the values are.
C20_StandingsAscendingAsStored ==
    BoardShown =>
        /\ StandingsAscendingStable
        /\ Range(board.standings) \subseteq Range(StoredStandings)
        /\ Len(board.standings)
             = IF Len(StoredStandings) <= 10 THEN Len(StoredStandings)
               ELSE 10
        /\ \A t \in Range(StoredStandings) \ Range(board.standings) :
              \A s \in Range(board.standings) :
                 \/ s.standing < t.standing
                 \/ s.standing = t.standing /\ s.team_id < t.team_id

\* shown: a league of 11 teams stored in descending order, the first two
\* tied for the last place: the last-stored team leads the 10 teams shown
\* and the first of the tied ones closes them
C20_Witness ==
    /\ BoardShown
    /\ Len(StoredStandings) = 11
    /\ StoredStandings[1].standing = StoredStandings[2].standing
    /\ Len(board.standings) = 10
    /\ board.standings[1].team_id = 11
    /\ board.standings[10].team_id = 1

(***************************************************************************)
(* C22: the divisions of the Beat Proj card and of the per-game averages.  *)
(***************************************************************************)
\* no week of the stored player has points above 0
NoWeekScored == \A k \in DOMAIN SourceStats : ~(SourceStats[k].points > 0)

\* C22: no per-game average or ratio divides by zero: for a player with no
\* week with points above 0 the Beat Proj progress is 0 and no card gives a
\* per-game average; a per-game average is given only when a week other
\* than week "0" scored, and it is then a proper number.
C22_NoDivisionByZero ==
    view.rendered =>
        /\ IsProperNumber(view.beatProjProgress)
        /\ NoWeekScored =>
              /\ view.beatProjProgress = FromInt(0)
              /\ \A i \in 1..Len(view.seasonCards) :
                    view.seasonCards[i].perGame = <<>>
        /\ \A i \in 1..Len(view.seasonCards) :
              LET perGame == view.seasonCards[i].perGame
              IN  perGame # <<>> =>
                      /\ ScoringWeeks # {}
                      /\ view.gamesPlayed > 0
                      /\ \A j \in 1..Len(perGame) :
                            IsProperNumber(perGame[j].value)

\* rendered over weeks that all have 0 points, one of them with a passing
\* stat: the passing card is shown without per-game averages and the Beat
\* Proj progress is 0
C22_Witness ==
    /\ view.rendered
    /\ DOMAIN SourceStats # {}
    /\ NoWeekScored
    /\ view.gamesPlayed = 0
    /\ view.beatProjProgress = FromInt(0)
    /\ Len(view.seasonCards) > 0
    /\ view.seasonCards[1].category = "passing"
    /\ view.seasonCards[1].perGame = <<>>

(***************************************************************************)
(* C30: the category cards of the season tab against the classifier table. *)
(***************************************************************************)
\* the keys the category cards of the season tab show
SeasonCardKeys ==
    UNION {KeysShown(view.seasonCards[i].stats) :
              i \in 1..Len(view.seasonCards)}

\* C30: every stat of the season breakdown that the classifier table has
\* and that is applicable to the player's position is shown in one of the
\* category cards rendered for that position, fumbles for kickers and
\* defenses included.
C30_ApplicableStatsShown ==
    view.rendered => ApplicableKeys(view.seasonBreakdown) \subseteq SeasonCardKeys

(***************************************************************************)
(* C23: what a parse-content request carries.                              *)
(***************************************************************************)
\* a typed value with every character that is not a decimal digit removed
RECURSIVE DigitsKept(_)
DigitsKept(typed) ==
    IF typed = <<>> THEN <<>>
    ELSE IF Head(typed) \in {"0", "1", "2", "3", "4", "5", "6", "7", "8", "9"}
    THEN <<Head(typed)>> \o DigitsKept(Tail(typed))
    ELSE DigitsKept(Tail(typed))

\* a typed value of spaces only
Blank(typed) == \A i \in 1..Len(typed) : typed[i] = " "

\* sent is typed without the spaces around it
IsTrimOf(sent, typed) ==
    /\ sent # <<>>
    /\ Head(sent) # " "
    /\ sent[Len(sent)] # " "
    /\ \E i \in 1..Len(typed) :
          /\ SubSeq(typed, i, i + Len(sent) - 1) = sent
          /\ Blank(SubSeq(typed, 1, i - 1))
          /\ Blank(SubSeq(typed, i + Len(sent), Len(typed)))

\* this step sends the request of a public, of a private submit
PublicSends == publicCall.pc = "idle" /\ publicCall'.pc = "fetch"
PrivateSends == privateCall.pc = "idle" /\ privateCall'.pc = "fetch"

\* C23: every parse-content request carries as leagueId the typed League ID
\* with all characters but decimal digits removed, and that is not empty; a
\* private request carries the trimmed, non-empty swid and espn_s2 besides;
\* with an empty sanitized League ID (or a blank credential in the private
\* flow) no request is sent and status and message stay as they are.
C23_RequestsCarrySanitizedId ==
    [][/\ PublicSends =>
             LET request == publicCall'.request.v
             IN  /\ request["leagueId"].v # <<>>
                 /\ request["leagueId"].v = DigitsKept(publicLeagueId)
                 /\ request["source"] = Str(<<"public">>)
       /\ PrivateSends =>
             LET request == privateCall'.request.v
             IN  /\ request["leagueId"].v # <<>>
                 /\ request["leagueId"].v = DigitsKept(privateLeagueId)
                 /\ request["source"] = Str(<<"private">>)
                 /\ IsTrimOf(request["swid"].v, swid)
                 /\ IsTrimOf(request["espn_s2"].v, espnS2)
       /\ (publicCall.pc = "idle" /\ DigitsKept(publicLeagueId) = <<>>) =>
             UNCHANGED <<publicCall, publicStatus, publicMessage>>
       /\ (/\ privateCall.pc = "idle"
           /\ \/ DigitsKept(privateLeagueId) = <<>>
              \/ Blank(swid)
              \/ Blank(espnS2)) =>
             UNCHANGED <<privateCall, privateStatus, privateMessage>>
      ]_vars

\* a private request in flight: typed "-2" sent as "2", swid " s" sent as "s",
\* while the public form, its League ID cleared again, has sent nothing
C23_Witness ==
    /\ privateCall.pc = "fetch"
    /\ privateCall.typed[2] = <<"-", "2">>
    /\ privateCall.typed[3] = <<" ", "s">>
    /\ privateCall.request.v["leagueId"] = Str(<<"2">>)
    /\ privateCall.request.v["swid"] = Str(<<"s">>)
    /\ privateCall.request.v["espn_s2"] = Str(<<"e">>)
    /\ publicCall.pc = "idle"
    /\ publicStatus = "idle"
    /\ publicLeagueName # <<>>
    /\ publicLeagueId = <<>>

(***************************************************************************)
(* C28: the League ID of the stored snapshot and of the redirect.          *)
(***************************************************************************)
\* this step is the success branch of the call, before and after
Connects(call, callAfter, statusAfter) ==
    call.pc = "json" /\ callAfter.pc = "idle" /\ statusAfter = "success"

\* the snapshot stored by this step has the League ID sent in the request
\* of this call and the standings, teams and rosters of its response, and
\* the redirect this step schedules goes to the same League ID
StoresSentId(call) ==
    LET sent == call.request.v["leagueId"]
        responseData == call.response.body.v
    IN  /\ leagueData'.v["leagueId"] = sent
        /\ \A k \in {"standings", "teams", "rosters"} :
              Get(leagueData'.v, k) = Get(responseData, k)
        /\ \E url \in timers' : url.leagueId = sent.v
        /\ \A url \in timers' \ timers : url.leagueId = sent.v

\* C28: the leagueId of the stored snapshot and of the dashboard redirect is
\* the sanitized id sent in the request whose response supplied the
\* snapshot's standings, teams and rosters, whatever the user has typed
\* into the form while the request was in flight.
C28_StoredIdIsSentId ==
    [][/\ Connects(publicCall, publicCall', publicStatus') =>
             StoresSentId(publicCall)
       /\ Connects(privateCall, privateCall', privateStatus') =>
             StoresSentId(privateCall)
       /\ route' # route => route'.v \in timers
      ]_vars

\* connected with League ID "1" after the League ID field was changed while
\* the request was in flight; the redirect to league "1" has been made
C28_Witness ==
    /\ publicStatus = "success"
    /\ lastGood.edited
    /\ leagueData = lastGood.data
    /\ leagueData.v["leagueId"] = Str(<<"1">>)
    /\ route # Null
    /\ route.v.leagueId = <<"1">>

(***************************************************************************)
(* C25: what a connect does to the form fields.                            *)
(***************************************************************************)
\* the fields of each form, in the order a call keeps them as typed
PublicFields == <<publicLeagueName, publicLeagueId>>
PrivateFields == <<privateLeagueName, privateLeagueId, swid, espnS2>>

\* this step is the catch block of the call, before and after
Fails(call, callAfter, statusAfter) ==
    call.pc # "idle" /\ callAfter.pc = "idle" /\ statusAfter = "error"

\* a successful connect empties the fields of its form, and no step of a
\* flow changes the fields, status or message of the other flow
ClearsOwnFieldsOnly ==
    /\ Connects(publicCall, publicCall', publicStatus') =>
          PublicFields' = <<<<>>, <<>>>>
    /\ Connects(privateCall, privateCall', privateStatus') =>
          PrivateFields' = <<<<>>, <<>>, <<>>, <<>>>>
    /\ publicCall' # publicCall =>
          UNCHANGED <<PrivateFields, privateStatus, privateMessage>>
    /\ privateCall' # privateCall =>
          UNCHANGED <<PublicFields, publicStatus, publicMessage>>

\* C25 as stated: after a successful connect the fields of the flow are
\* empty, after a failed connect they have the values they had at submit,
\* and a submit in one flow changes nothing of the other flow.
C25_FailureKeepsSubmittedValues ==
    [][/\ ClearsOwnFieldsOnly
       /\ Fails(publicCall, publicCall', publicStatus') =>
             PublicFields' = publicCall.typed
       /\ Fails(privateCall, privateCall', privateStatus') =>
             PrivateFields' = privateCall.typed
      ]_vars

\* C25, amended: the step that completes a successful connect empties the
\* fields of its flow; a failed connect and the submit itself change no form
\* field, so that after a failure each field holds what was typed last, at
\* submit or while the request was in flight; no step of a flow changes the
\* fields, status or message of the other flow.
C25_FailureChangesNoField ==
    [][/\ ClearsOwnFieldsOnly
       /\ Fails(publicCall, publicCall', publicStatus') => UNCHANGED formVars
       /\ Fails(privateCall, privateCall', privateStatus') => UNCHANGED formVars
       /\ PublicSends => UNCHANGED formVars
       /\ PrivateSends => UNCHANGED formVars
      ]_vars

\* the public connect has failed with its fields still filled in, the
\* private connect has succeeded and its four fields are empty
C25_Witness ==
    /\ publicStatus = "error"
    /\ publicLeagueId = <<"1", "a">>
    /\ publicLeagueName = <<" ", "L">>
    /\ privateStatus = "success"
    /\ PrivateFields = <<<<>>, <<>>, <<>>, <<>>>>
    /\ leagueData.v["leagueId"] = Str(<<"2">>)

(***************************************************************************)
(* C24: the status of each connect flow.                                   *)
(***************************************************************************)
\* a change of a flow's status goes from idle, success or error to loading,
\* or from loading to success or error
StatusStep(status, statusAfter) ==
    statusAfter # status =>
        \/ status \in {"idle", "success", "error"} /\ statusAfter = "loading"
        \/ status = "loading" /\ statusAfter \in {"success", "error"}

\* a step into success is taken on an OK response of the call, and it
\* leaves the snapshot of that call in the store
SuccessStep(call, status, statusAfter) ==
    (statusAfter = "success" /\ status # "success") =>
        /\ call.response.ok
        /\ leagueData'.t = "text"
        /\ leagueData'.v["leagueId"] = call.request.v["leagueId"]
        /\ \A k \in {"standings", "teams", "rosters"} :
              Get(leagueData'.v, k) = Get(call.response.body.v, k)

\* C24: the status of each flow moves idle/success/error -> loading ->
\* success | error; status success is entered only on an OK response whose
\* snapshot is written to the store in the same step; status error comes
\* with a message that is not null; and, the requests settling, every
\* loading is left again.
C24_StatusCycle ==
    /\ [][/\ StatusStep(publicStatus, publicStatus')
          /\ StatusStep(privateStatus, privateStatus')
          /\ SuccessStep(publicCall, publicStatus, publicStatus')
          /\ SuccessStep(privateCall, privateStatus, privateStatus')]_vars
    /\ [](publicStatus = "error" => publicMessage.t = "string")
    /\ [](privateStatus = "error" => privateMessage.t = "string")
    /\ (publicStatus = "loading") ~> (publicStatus # "loading")
    /\ (privateStatus = "loading") ~> (privateStatus # "loading")

\* the public flow has gone through loading to error on an unreadable OK
\* response and carries its message, the private flow through loading to
\* success with its snapshot in the store
C24_Witness ==
    /\ publicStatus = "error"
    /\ publicMessage = Str("Unexpected token in JSON")
    /\ privateStatus = "success"
    /\ privateMessage = Str("League connected! Redirecting...")
    /\ leagueData.t = "text"
    /\ leagueData.v["leagueId"] = Str(<<"2">>)

(***************************************************************************)
(* Properties of the load effect of the player page (LoadSpec).            *)
(***************************************************************************)
\* the stored snapshot has a rosters mapping
HasRostersMapping ==
    /\ leagueData # Null
    /\ leagueData.v \notin {Unparsable, Null}
    /\ "rosters" \in DOMAIN leagueData.v
    /\ leagueData.v["rosters"].t = "object"

\* the places <<team, index>> of the stored rosters that hold a player whose
\* id is written as this route id, a team being the index of its key
PlacesOf(playerId) ==
    IF ~HasRostersMapping THEN {}
    ELSE LET rosters == leagueData.v["rosters"]
         IN  {pl \in (1..Len(rosters.keys)) \X (1..2) :
                 LET roster == rosters.v[rosters.keys[pl[1]]].v
                 IN  /\ pl[2] <= Len(roster)
                     /\ NumberToString(roster[pl[2]].playerId) = playerId}

\* the first of these places in roster order
FirstPlace(places) ==
    CHOOSE pl \in places :
        \A other \in places :
            \/ pl[1] < other[1]
            \/ pl[1] = other[1] /\ pl[2] <= other[2]

\* what the page shows once loaded for this id from the stored snapshot
ShownFor(playerId) ==
    IF PlacesOf(playerId) = {}
    THEN [screen |-> "Player Not Found", playerId |-> playerId]
    ELSE LET rosters == leagueData.v["rosters"]
             pl == FirstPlace(PlacesOf(playerId))
             team == rosters.keys[pl[1]]
         IN  [screen |-> "player", player |-> rosters.v[team].v[pl[2]],
              teamName |-> team]

\* C27: loading the player page ends: the step that leaves the loading
\* state shows "Player Not Found" when the stored key is absent, is not
\* parsable, has no rosters mapping or has no player of the requested id,
\* and else the first player of that id in roster order with the name of
\* its team; and the loading state is always left.
C27_LoadingEnds ==
    /\ [][(playerPage.isLoading /\ playerPage' # playerPage) =>
             /\ ~playerPage'.isLoading
             /\ PageShown(playerPage') = ShownFor(playerPage.playerId)]_vars
    /\ playerPage.isLoading ~> ~playerPage.isLoading

\* loaded for id "7", which the second team in the stored order holds and
\* the first holds behind player 8: the first team's player 7 is shown
C27_Witness ==
    /\ ~playerPage.isLoading
    /\ playerPage.effect = "done"
    /\ playerPage.playerId = <<"7">>
    /\ HasRostersMapping
    /\ leagueData.v["rosters"].keys = <<"Team B", "Team A">>
    /\ Cardinality(PlacesOf(<<"7">>)) = 2
    /\ PageShown(playerPage) =
          [screen |-> "player", player |-> RosterEntry(7, "b"),
           teamName |-> "Team B"]

\* C29: once the load effect has run for the route's playerId, the page
\* shows no player or a player of that id, also after the playerId of the
\* mounted page has changed to one the snapshot lacks.
C29_ShownPlayerHasRouteId ==
    (playerPage.mounted /\ playerPage.effect = "done") =>
        \/ PageShown(playerPage).screen = "Player Not Found"
        \/ /\ PageShown(playerPage).screen = "player"
           /\ NumberToString(PageShown(playerPage).player.playerId)
                 = playerPage.playerId

(***************************************************************************)
(* C26: the ESPN-fetch form and private leagues (EspnSpec).                *)
(***************************************************************************)
\* the payload says the league is private: by an unauthorized message or by
\* a detail of type AUTH_LEAGUE_NOT_VISIBLE
MarkedPrivate(payload) == payload \in {UnauthorizedPayload, NotVisiblePayload}

\* the pasted texts that are JSON
ValidJsonTexts == {<<" ", "{", "}">>}

\* C26: when the payload fetched from ESPN marks the league as private,
\* with HTTP status 200 or 401, the public flow sends no parse-content
\* request, sets publicStatus to "private", switches the mode to private
\* and sets the private league id and the link from the submitted id; and
\* the private flow sends no parse-content request while the metadata JSON
\* is blank or is not valid JSON.
C26_PrivateLeagueHandOff ==
    [][/\ (/\ espnConnect.publicCall.pc = "payload"
           /\ MarkedPrivate(espnConnect.publicCall.response.payload)
           /\ espnConnect'.publicCall.pc # "payload") =>
             /\ espnConnect'.publicCall.pc = "idle"
             /\ espnConnect'.sent = espnConnect.sent
             /\ espnConnect'.publicStatus = "private"
             /\ espnConnect'.mode = "private"
             /\ espnConnect'.privateLeagueId = espnConnect.publicCall.id
             /\ espnConnect'.privateLink =
                   buildEspnLeagueUrl(espnConnect.publicCall.id)
       /\ \A request \in espnConnect'.sent \ espnConnect.sent :
             request.source = "public" => ~MarkedPrivate(request.content)
       /\ (/\ espnConnect.privateCall.pc = "idle"
           /\ espnConnect.metadataJson \notin ValidJsonTexts) =>
             /\ espnConnect'.privateCall.pc = "idle"
             /\ \A request \in espnConnect'.sent \ espnConnect.sent :
                   request.source # "private"
      ]_vars

\* ESPN answered 200 with a payload of a league that is not visible: the
\* form is handed to the private flow for league "1"; there a submit of a
\* text that is no JSON has failed, and nothing has been sent
C26_Witness ==
    /\ espnConnect.mounted
    /\ espnConnect.publicStatus = "private"
    /\ espnConnect.publicCall.response.ok
    /\ espnConnect.publicCall.response.payload = NotVisiblePayload
    /\ espnConnect.mode = "private"
    /\ espnConnect.privateLeagueId = <<"1">>
    /\ espnConnect.privateLink = buildEspnLeagueUrl(<<"1">>)
    /\ espnConnect.metadataJson = <<"{">>
    /\ espnConnect.privateStatus = "error"
    /\ espnConnect.sent = {}

(***************************************************************************)
(* C21: the same input taken through twice (PipelineSpec).                 *)
(***************************************************************************)
\* C21: taking the same connect response, the same stored roster and the
\* same player through the pages again gives what the first time gave: the
\* same stored snapshot, the same timeline of 17 weeks, the same metrics and
\* season stats and the same roster order, whatever an earlier run has left
\* in the store and in the player object.
C21_SameResultEveryRun ==
    pipeline.started =>
        /\ \A i, j \in 1..Len(pipeline.results) :
              pipeline.results[i] = pipeline.results[j]
        /\ \A i \in 1..Len(pipeline.results) :
              /\ Len(pipeline.results[i].timeline) = NumWeeks
              /\ pipeline.store = pipeline.results[i].snapshot

\* taken through twice, the first render having written the sums of the
\* weeks into the empty breakdown of the stored season totals
C21_Witness ==
    /\ pipeline.started
    /\ Len(pipeline.results) = MaxRuns
    /\ pipeline.player.seasonTotals =
          Obj([breakdown |-> ("passingYards" :> 2) @@ ("rushingYards" :> 1)])
    /\ pipeline.results[1].metrics.seasonBreakdown =
          ("passingYards" :> 2) @@ ("rushingYards" :> 1)
    /\ pipeline.results[1].metrics.gamesPlayed = 2
    /\ pipeline.roster = FullRoster
    /\ pipeline.store # Null

====
